---- MODULE Spec2Model ----
(***************************************************************************)
(* Model of apps/builder/app/shared/instance-utils.ts: the structural      *)
(* editing engine over the WebstudioData tables (instances, props, data    *)
(* sources, resources, breakpoints, style source selections, style         *)
(* sources, styles, assets).                                               *)
(*                                                                         *)
(* Conventions.  A JavaScript Map is a function whose DOMAIN is the set of *)
(* keys.  Ids are naturals, each table with its own range, so that a       *)
(* reference of one kind is never mistaken for another; `undefined` is 0.  *)
(* nanoid() is a counter (nextId): a minted id is fresh, as collision-     *)
(* resistant random generation promises.  The arrays of a fragment are     *)
(* sequences.  An expression is a sequence of tokens, each an identifier   *)
(* or a literal, with the flag `ok` telling whether the parser accepts it. *)
(***************************************************************************)
EXTENDS Integers, Sequences, FiniteSets, TLC

VARIABLES
  data,       \* the nine tables of the loaded project (WebstudioData)
  project,    \* $project: the id of the loaded project, or NoProject
  clipboard,  \* the WebstudioFragment last extracted, or NoFragment
  op,         \* the last call: its name, inputs, outputs and the data before it
  nextId,     \* the next id nanoid() returns
  loads,      \* how many projects were loaded
  extracts,   \* how many fragments were extracted
  calls,      \* how many mutating calls were made on the loaded project
  origin      \* the document and the instance the clipboard was extracted from

vars == <<data, project, clipboard, op, nextId, loads, extracts, calls, origin>>

----------------------------------------------------------------------------
(* Bounds of the model.                                                    *)

MaxLoads == 2
MaxExtracts == 1
MaxCalls == 2
\* the reparentInstance calls made on a loaded project
MaxReparents == 1
\* the longest path given to the drop target resolver, in components
MaxPathLen == 3
\* the longest code string given to a rewriter, in tokens
MaxCodeLen == 2

----------------------------------------------------------------------------
(* JavaScript values and Map.                                              *)

undefined == 0

Has(map, key) == key \in DOMAIN map

Get(map, key) == map[key]

MapSet(map, key, value) ==
  [k \in DOMAIN map \cup {key} |-> IF k = key THEN value ELSE map[k]]

MapDelete(map, key) == [k \in DOMAIN map \ {key} |-> map[k]]

MapDeleteAll(map, keys) == [k \in DOMAIN map \ keys |-> map[k]]

EmptyMap == [k \in {} |-> undefined]

Values(map) == {map[k] : k \in DOMAIN map}

Range(seq) == {seq[i] : i \in DOMAIN seq}

RECURSIVE SetToSeq(_)
\* the elements of a set of naturals in ascending order: the order in which
\* a Map filled with ascending ids is iterated
SetToSeq(S) ==
  IF S = {} THEN <<>>
  ELSE LET m == CHOOSE x \in S : \A y \in S : x <= y
       IN <<m>> \o SetToSeq(S \ {m})

RECURSIVE AnySeq(_)
\* the elements of a set in some fixed order
AnySeq(S) ==
  IF S = {} THEN <<>>
  ELSE LET m == CHOOSE x \in S : TRUE
       IN <<m>> \o AnySeq(S \ {m})

RECURSIVE Fold(_, _, _, _)
\* a for-of loop over seq from index i: Step is its body, st the state it
\* updates; an exception thrown by the body (st.threw) ends the loop
\* instance-utils.ts:1005-1011 and every other for-of loop of the file
Fold(Step(_, _), st, seq, i) ==
  IF i > Len(seq) \/ st.threw THEN st
  ELSE Fold(Step, Step(st, seq[i]), seq, i + 1)

\* map.get(key) ?? default
GetOr(map, key, default) == IF Has(map, key) THEN map[key] ELSE default

Min(S) == CHOOSE x \in S : \A y \in S : x <= y

\* Array.prototype.map (instance-utils.ts:1094-1101)
MapSeq(seq, F(_)) == [i \in DOMAIN seq |-> F(seq[i])]

\* a Set accumulated over a for-of loop (instance-utils.ts:821-834)
UnionSeq(seq, F(_)) == UNION {F(seq[i]) : i \in DOMAIN seq}

RECURSIVE FlatMap(_, _)
\* Array.prototype.flatMap over a sequence of sequences
FlatMap(seqs, i) ==
  IF i > Len(seqs) THEN <<>> ELSE seqs[i] \o FlatMap(seqs, i + 1)

----------------------------------------------------------------------------
(* The expression language (react-sdk): identifiers, encode, decode and    *)
(* the rewrite primitive validateExpression.                               *)

dataSourceVariablePrefix == "$ws$dataSource$"

\* the text of an identifier that does not name a data source
PlainIdentifier(n) == [kind |-> "ident", prefix |-> "", rest |-> n]

encodeDataSourceVariable(id) ==
  [kind |-> "ident", prefix |-> dataSourceVariablePrefix, rest |-> id]

decodeDataSourceVariable(name) ==
  IF name.prefix = dataSourceVariablePrefix THEN name.rest ELSE undefined

Literal(text) == [kind |-> "lit", value |-> text]

\* JSON.stringify of the value of a variable
JSONstringify(value) ==
  CASE value = 8 -> "8"
    [] value = 9 -> "9"
    [] OTHER -> "null"

\* a token: a lexeme and whether it stands on the left of an assignment
Token(text, assignee) == [text |-> text, assignee |-> assignee]

Read(id) == Token(encodeDataSourceVariable(id), FALSE)
Assign(id) == Token(encodeDataSourceVariable(id), TRUE)
Plain == Token(PlainIdentifier(1), FALSE)
One == Token(Literal("1"), FALSE)

Code(toks) == [ok |-> TRUE, toks |-> toks]
Malformed(toks) == [ok |-> FALSE, toks |-> toks]

\* validateExpression throws on a code string that does not parse
Throws(code) == ~code.ok

\* validateExpression(code, {effectful: true, transformIdentifier}): every
\* identifier is replaced by the text transformIdentifier returns for it
\* the returned string is what the next call parses: it does not parse when
\* a literal stands on the left of an assignment
Parses(toks) == \A i \in DOMAIN toks : toks[i].assignee => toks[i].text.kind = "ident"

\* imported from @webstudio-is/react-sdk (instance-utils.ts:24-32)
validateExpression(code, transformIdentifier(_, _)) ==
  LET toks == [i \in DOMAIN code.toks |->
        LET tok == code.toks[i] IN
        IF tok.text.kind = "ident"
          THEN Token(transformIdentifier(tok.text, tok.assignee), tok.assignee)
          ELSE tok]
  IN [ok |-> Parses(toks), toks |-> toks]

\* the ids of the data sources a code string names
DecodedIds(code) ==
  {decodeDataSourceVariable(code.toks[i].text) :
     i \in {j \in DOMAIN code.toks : code.toks[j].text.kind = "ident"}}
  \ {undefined}

----------------------------------------------------------------------------
(* Component metadata ($registeredComponentMetas) and the sdk's tree       *)
(* traversals.                                                             *)

portalComponent == "Portal"
collectionComponent == "ws:collection"

Meta(type, detachable) ==
  [type |-> type, detachable |-> detachable,
   requiredAncestors |-> {}, invalidAncestors |-> {}]

metas ==
  [c \in {"Body", "Box", "Text", "Image", "Item", "Fragment",
          portalComponent, collectionComponent} |->
     CASE c = "Image" -> Meta("embed", TRUE)
       [] c = "Item" -> Meta("container", FALSE)
       [] OTHER -> Meta("container", TRUE)]

IdChildren(instance) ==
  {instance.children[i].value :
     i \in {j \in DOMAIN instance.children : instance.children[j].type = "id"}}

RECURSIVE traverseInstances(_, _, _)
RECURSIVE traverseChildren(_, _, _, _)
\* the instances a traversal from instanceId visits, in the order it visits
\* them; with skipSlot the children of a Portal are not entered
traverseInstances(instances, instanceId, skipSlot) ==
  IF ~Has(instances, instanceId) THEN <<>>
  ELSE LET instance == instances[instanceId] IN
       IF skipSlot /\ instance.component = portalComponent
         THEN <<instanceId>>
         ELSE <<instanceId>> \o traverseChildren(instances, instance.children, 1, skipSlot)
traverseChildren(instances, children, i, skipSlot) ==
  IF i > Len(children) THEN <<>>
  ELSE (IF children[i].type = "id"
          THEN traverseInstances(instances, children[i].value, skipSlot)
          ELSE <<>>)
       \o traverseChildren(instances, children, i + 1, skipSlot)

\* a Set keeps the first occurrence of each element
RECURSIVE Dedupe(_, _)
Dedupe(seq, seen) ==
  IF seq = <<>> THEN <<>>
  ELSE IF Head(seq) \in seen THEN Dedupe(Tail(seq), seen)
       ELSE <<Head(seq)>> \o Dedupe(Tail(seq), seen \cup {Head(seq)})

\* findTreeInstanceIds, as the ordered Set it returns
findTreeInstanceIdsOrdered(instances, rootInstanceId) ==
  Dedupe(<<rootInstanceId>> \o traverseInstances(instances, rootInstanceId, FALSE), {})

findTreeInstanceIds(instances, rootInstanceId) ==
  Range(findTreeInstanceIdsOrdered(instances, rootInstanceId))

\* findTreeInstanceIdsExcludingSlotDescendants, as the ordered Set it returns
findTreeInstanceIdsExcludingSlotDescendantsOrdered(instances, rootInstanceId) ==
  Dedupe(<<rootInstanceId>> \o traverseInstances(instances, rootInstanceId, TRUE), {})

findTreeInstanceIdsExcludingSlotDescendants(instances, rootInstanceId) ==
  Range(findTreeInstanceIdsExcludingSlotDescendantsOrdered(instances, rootInstanceId))

\* tree-utils: the local style sources selected by the given instances
findLocalStyleSourcesWithinInstances(styleSources, styleSourceSelections, instanceIds) ==
  LET localStyleSourceIds == {s.id : s \in {t \in styleSources : t.type = "local"}}
  IN UNION {Range(sel.values) \cap localStyleSourceIds :
              sel \in {t \in styleSourceSelections : t.instanceId \in instanceIds}}

getStyleDeclKey(styleDecl) ==
  <<styleDecl.styleSourceId, styleDecl.breakpointId, styleDecl.property>>

equalMedia(a, b) == a.minWidth = b.minWidth /\ a.maxWidth = b.maxWidth

----------------------------------------------------------------------------
(* Records of the data model, and the projects that can be loaded.         *)

NoProject == "undefined"
ProjectId == "projectId"
NoFragment == [none |-> TRUE]

IdChild(id) == [type |-> "id", value |-> id]
\* fields that hold values of different kinds bear different names: the
\* id of an id-child is its value, the code of an expression child its code
ExpressionChild(code) == [type |-> "expression", code |-> code]
TextChild(text) == [type |-> "text", text |-> text]

Instance(id, component, children) ==
  [id |-> id, component |-> component, children |-> children]

Variable(id, scopeInstanceId, value) ==
  [type |-> "variable", id |-> id, scopeInstanceId |-> scopeInstanceId,
   value |-> [type |-> "number", value |-> value]]
Parameter(id, scopeInstanceId) ==
  [type |-> "parameter", id |-> id, scopeInstanceId |-> scopeInstanceId]
ResourceDataSource(id, scopeInstanceId, resourceId) ==
  [type |-> "resource", id |-> id, scopeInstanceId |-> scopeInstanceId,
   resourceId |-> resourceId]

\* body is <<>> when the resource has none, else <<code>>
Resource(id, url, headers, body) ==
  [id |-> id, url |-> url, headers |-> headers, body |-> body]
Header(name, value) == [name |-> name, value |-> value]

\* the value of a prop is its code (expression), steps (action), assetId
\* (asset), dataSourceId (parameter) or text (any other type)
ExpressionProp(id, instanceId, code) ==
  [id |-> id, instanceId |-> instanceId, type |-> "expression", code |-> code]
ActionProp(id, instanceId, steps) ==
  [id |-> id, instanceId |-> instanceId, type |-> "action", steps |-> steps]
AssetProp(id, instanceId, assetId) ==
  [id |-> id, instanceId |-> instanceId, type |-> "asset", assetId |-> assetId]
ParameterProp(id, instanceId, dataSourceId) ==
  [id |-> id, instanceId |-> instanceId, type |-> "parameter",
   dataSourceId |-> dataSourceId]
StringProp(id, instanceId, text) ==
  [id |-> id, instanceId |-> instanceId, type |-> "string", text |-> text]
Execute(code) == [type |-> "execute", code |-> code]

StyleSource(id, type) == [id |-> id, type |-> type]
StyleSourceSelection(instanceId, values) ==
  [instanceId |-> instanceId, values |-> values]
Breakpoint(id, minWidth, maxWidth) ==
  [id |-> id, minWidth |-> minWidth, maxWidth |-> maxWidth]
StyleDecl(styleSourceId, breakpointId, property, value) ==
  [styleSourceId |-> styleSourceId, breakpointId |-> breakpointId,
   property |-> property, value |-> value]
Keyword(value) == [type |-> "keyword", value |-> value]
ImageAsset(assetId) ==
  [type |-> "image", image |-> [type |-> "asset", value |-> assetId]]
FontFamily(families) == [type |-> "fontFamily", families |-> families]
Layers(values) == [type |-> "layers", layers |-> values]
Asset(id, type, family, projectId) ==
  [id |-> id, type |-> type, meta |-> [family |-> family], projectId |-> projectId]

\* a Map of records keyed by their id
ById(records) == [k \in {r.id : r \in records} |-> CHOOSE r \in records : r.id = k]
ByInstanceId(records) ==
  [k \in {r.instanceId : r \in records} |-> CHOOSE r \in records : r.instanceId = k]
ByStyleDeclKey(records) ==
  [k \in {getStyleDeclKey(r) : r \in records} |->
     CHOOSE r \in records : getStyleDeclKey(r) = k]

WebstudioData(instances, props, dataSources, resources, breakpoints, styleSourceSelections, styleSources, styles, assets) ==
  [instances |-> instances, props |-> props, dataSources |-> dataSources,
   resources |-> resources, breakpoints |-> breakpoints,
   styleSourceSelections |-> styleSourceSelections,
   styleSources |-> styleSources, styles |-> styles, assets |-> assets]

EmptyData ==
  WebstudioData(EmptyMap, EmptyMap, EmptyMap, EmptyMap, EmptyMap,
                EmptyMap, EmptyMap, EmptyMap, EmptyMap)

\* A project whose Box 12 hosts Portal 14 with the portal content 15 > 16.
\* shape: what instance 13, the second child of the Body, is
\*   "portal"   a second Portal sharing the portal content 15
\*   "wrapper"  a Fragment wrapping the single child 17
\*   "box"      a Box with the child 17 and a text
\*   "item"     a Box whose child 17 is not detachable
\*   "collection" a collection with the child 17 and a text
\* free: what reads variable 21 of the Body rather than variable 22 of the
\*   Box: "code" the expressions and actions of the Box, "resource" the
\*   resource of the Box, "none" nothing; with "code" the action of the
\*   portal content assigns variable 21 too, rather than its own variable 24
\* bad: the expression child of the Box does not parse
SourceProject(shape, free, bad) ==
  LET used == IF free = "code" THEN 21 ELSE 22
      fetched == IF free = "resource" THEN 21 ELSE 22
      portalUsed == IF free = "code" THEN 21 ELSE 24
      boxCode == IF bad THEN Malformed(<<Read(used), One>>)
                 ELSE Code(<<Read(used), One>>)
      third ==
        CASE shape = "portal" -> Instance(13, portalComponent, <<IdChild(15)>>)
          [] shape = "wrapper" -> Instance(13, "Fragment", <<IdChild(17)>>)
          [] shape = "collection" ->
               Instance(13, collectionComponent, <<IdChild(17), TextChild("hello")>>)
          [] OTHER -> Instance(13, "Box", <<IdChild(17), TextChild("hello")>>)
      leaf == {Instance(17, IF shape = "item" THEN "Item" ELSE "Image", <<>>)}
      hasLeaf == shape # "portal"
  IN WebstudioData(
       ById({Instance(11, "Body", <<IdChild(12), IdChild(13)>>),
             Instance(12, "Box", <<ExpressionChild(boxCode), IdChild(14)>>),
             Instance(14, portalComponent, <<IdChild(15)>>),
             Instance(15, "Fragment", <<IdChild(16)>>),
             Instance(16, "Text", <<ExpressionChild(Code(<<Read(24)>>))>>),
             third} \cup (IF hasLeaf THEN leaf ELSE {})),
       ById({ExpressionProp(41, 12, Code(<<Read(used), One>>)),
             ActionProp(42, 12,
                  <<Execute(Code(<<Assign(22), One>>)),
                    Execute(Code(<<Assign(used), One>>))>>),
             ExpressionProp(44, 16, Code(<<Read(24), Plain>>)),
             ActionProp(48, 16,
                  <<Execute(Code(<<Assign(portalUsed), One>>)),
                    Execute(Code(<<Assign(portalUsed), Plain>>))>>),
             ParameterProp(45, 12, 25), AssetProp(47, 12, 71)}
            \cup (IF hasLeaf THEN {AssetProp(43, 17, 71)} ELSE {})),
       ById({Variable(21, 11, 8), Variable(22, 12, 9),
             ResourceDataSource(23, 12, 31), Variable(24, 15, 8),
             Parameter(25, 12)}),
       ById({Resource(31, Code(<<Read(fetched)>>),
                      <<Header("h", Code(<<Read(22)>>))>>,
                      IF free = "resource" THEN <<Code(<<Read(21), One>>)>> ELSE <<>>)}),
       ById({Breakpoint(61, undefined, undefined), Breakpoint(62, 768, undefined)}),
       ByInstanceId({StyleSourceSelection(12, <<51, 52>>),
                     StyleSourceSelection(16, <<53>>)}
                    \cup (IF hasLeaf THEN {StyleSourceSelection(17, <<51, 54>>)}
                          ELSE {})),
       ById({StyleSource(51, "token"), StyleSource(52, "local"),
             StyleSource(53, "local")}
            \cup (IF hasLeaf THEN {StyleSource(54, "local")} ELSE {})),
       ByStyleDeclKey({StyleDecl(51, 61, "color", Keyword("red")),
                       StyleDecl(52, 62, "width", Keyword("auto")),
                       StyleDecl(53, 61, "backgroundImage",
                                 Layers(<<ImageAsset(72)>>))}
                      \cup (IF hasLeaf
                              THEN {StyleDecl(54, 62, "fontFamily",
                                              FontFamily(<<"Inter">>))}
                              ELSE {})),
       ById({Asset(71, "image", "", ProjectId), Asset(72, "image", "", ProjectId),
             Asset(73, "font", "Inter", ProjectId)}))

\* A project that already holds what a fragment of SourceProject preserves
\* the id of, edited: the portal content 15, the token 51, the asset 71,
\* and a breakpoint 63 with the media of breakpoint 62.
TargetProject ==
  WebstudioData(
    ById({Instance(11, "Body", <<IdChild(18)>>),
          Instance(18, portalComponent, <<IdChild(15)>>),
          Instance(15, "Fragment", <<IdChild(19)>>),
          Instance(19, "Text", <<TextChild("edited")>>)}),
    ById({StringProp(46, 19, "edited")}),
    ById({Variable(26, 11, 9)}),
    EmptyMap,
    ById({Breakpoint(61, undefined, undefined), Breakpoint(63, 768, undefined)}),
    ByInstanceId({StyleSourceSelection(19, <<51, 55>>)}),
    ById({StyleSource(51, "token"), StyleSource(55, "local")}),
    ByStyleDeclKey({StyleDecl(51, 61, "color", Keyword("blue")),
                    StyleDecl(51, 63, "width", Keyword("edited")),
                    StyleDecl(55, 63, "width", Keyword("auto"))}),
    ById({Asset(71, "image", "edited", ProjectId)}))

\* A project with nothing but a Body and the breakpoint {minWidth: 768} under
\* another id.
FreshProject ==
  WebstudioData(
    ById({Instance(11, "Body", <<>>)}),
    EmptyMap, EmptyMap, EmptyMap,
    ById({Breakpoint(64, 768, undefined)}),
    EmptyMap, EmptyMap, EmptyMap, EmptyMap)

Shapes == {"portal", "wrapper", "box", "item", "collection"}

SourceProjects ==
  {SourceProject(shape, free, FALSE) :
     shape \in Shapes, free \in {"none", "code", "resource"}}
  \cup {SourceProject("box", "code", TRUE)}

Projects == SourceProjects \cup {TargetProject, FreshProject, EmptyData}

----------------------------------------------------------------------------
(* The invariants of the data model.                                       *)

\* every code string of the tables
InstanceCodes(instance) ==
  {instance.children[i].code :
     i \in {j \in DOMAIN instance.children :
              instance.children[j].type = "expression"}}

PropCodes(prop) ==
  CASE prop.type = "expression" -> {prop.code}
    [] prop.type = "action" ->
         {prop.steps[i].code :
            i \in {j \in DOMAIN prop.steps : prop.steps[j].type = "execute"}}
    [] OTHER -> {}

ResourceCodes(resource) ==
  {resource.url} \cup {resource.headers[i].value : i \in DOMAIN resource.headers}
  \cup Range(resource.body)

RECURSIVE StyleValueLeaves(_)
\* traverseStyleValue: the leaves of a style value
StyleValueLeaves(value) ==
  IF value.type = "layers"
    THEN UNION {StyleValueLeaves(value.layers[i]) : i \in DOMAIN value.layers}
    ELSE {value}

StyleDeclAssetIds(styleDecl) ==
  {leaf.image.value :
     leaf \in {l \in StyleValueLeaves(styleDecl.value) :
                 l.type = "image" /\ l.image.type = "asset"}}

StyleDeclFontFamilies(styleDecl) ==
  UNION {Range(leaf.families) :
           leaf \in {l \in StyleValueLeaves(styleDecl.value) : l.type = "fontFamily"}}

\* the instances that list id as an id-child
ParentsOf(instances, id) ==
  {p \in DOMAIN instances : id \in IdChildren(instances[p])}

WellFormed(d) ==
  /\ \A i \in DOMAIN d.instances :
       /\ d.instances[i].id = i
       /\ IdChildren(d.instances[i]) \subseteq DOMAIN d.instances
       /\ \A c \in InstanceCodes(d.instances[i]) :
            DecodedIds(c) \subseteq DOMAIN d.dataSources
  /\ \A i \in DOMAIN d.instances :
       \A p, q \in ParentsOf(d.instances, i) :
         p # q => /\ d.instances[p].component = portalComponent
                  /\ d.instances[q].component = portalComponent
  /\ \A k \in DOMAIN d.dataSources :
       LET dataSource == d.dataSources[k] IN
       /\ dataSource.scopeInstanceId # undefined
            => dataSource.scopeInstanceId \in DOMAIN d.instances
       /\ dataSource.type = "resource"
            => dataSource.resourceId \in DOMAIN d.resources
  /\ \A k \in DOMAIN d.resources :
       \A c \in ResourceCodes(d.resources[k]) :
         /\ DecodedIds(c) \subseteq DOMAIN d.dataSources
         /\ \A id \in DecodedIds(c) : d.dataSources[id].type # "resource"
  /\ \A k \in DOMAIN d.props :
       LET prop == d.props[k] IN
       /\ prop.instanceId \in DOMAIN d.instances
       /\ \A c \in PropCodes(prop) : DecodedIds(c) \subseteq DOMAIN d.dataSources
       /\ prop.type = "asset" => prop.assetId \in DOMAIN d.assets
       /\ prop.type = "parameter" => prop.dataSourceId \in DOMAIN d.dataSources
  /\ \A k \in DOMAIN d.styleSourceSelections :
       /\ k \in DOMAIN d.instances
       /\ Range(d.styleSourceSelections[k].values) \subseteq DOMAIN d.styleSources
  /\ \A s \in DOMAIN d.styleSources :
       d.styleSources[s].type = "local"
         => Cardinality({k \in DOMAIN d.styleSourceSelections :
                           s \in Range(d.styleSourceSelections[k].values)}) <= 1
  /\ \A k \in DOMAIN d.styles :
       /\ d.styles[k].styleSourceId \in DOMAIN d.styleSources
       /\ d.styles[k].breakpointId \in DOMAIN d.breakpoints
       /\ StyleDeclAssetIds(d.styles[k]) \subseteq DOMAIN d.assets
  /\ \A a, b \in DOMAIN d.breakpoints :
       equalMedia(d.breakpoints[a], d.breakpoints[b]) => a = b

----------------------------------------------------------------------------
(* Instance selectors: the paths, innermost instance first, from an        *)
(* instance up to the root of the page.                                    *)

RootInstanceIds(instances) ==
  {i \in DOMAIN instances : instances[i].component = "Body"}

\* the id of the item a collection wraps its child at the index in
\* (getIndexedInstanceId): the id of no instance
ItemId(instanceId, index) == 1000 + 10 * instanceId + index

\* the selector of the child at the index, above the selector of its parent:
\* under a collection the item stands between the two
ChildSelector(instances, selector, index) ==
  <<instances[selector[1]].children[index].value>>
  \o (IF instances[selector[1]].component = collectionComponent
        THEN <<ItemId(selector[1], index - 1)>> ELSE <<>>)
  \o selector

RECURSIVE SelectorsBelow(_, _)
SelectorsBelow(instances, selector) ==
  {selector} \cup
  UNION {SelectorsBelow(instances, ChildSelector(instances, selector, index)) :
           index \in {k \in DOMAIN instances[selector[1]].children :
                        /\ instances[selector[1]].children[k].type = "id"
                        /\ instances[selector[1]].children[k].value \in DOMAIN instances}}

InstanceSelectors(instances) ==
  UNION {SelectorsBelow(instances, <<r>>) : r \in RootInstanceIds(instances)}

----------------------------------------------------------------------------
(* deleteInstanceMutable                                                   *)

\* every instance is detachable
isInstanceDetachable_Always(instances, instanceSelector) == TRUE

isInstanceDetachable(instances, instanceSelector) ==
  LET instanceId == instanceSelector[1] IN
  IF ~Has(instances, instanceId) THEN FALSE
  ELSE IF ~Has(metas, instances[instanceId].component) THEN FALSE
  ELSE metas[instances[instanceId].component].detachable

\* removeByMutable(children, child is the id-child naming instanceId)
RemoveIdChild(children, instanceId) ==
  SelectSeq(children, LAMBDA child : ~(child.type = "id" /\ child.value = instanceId))

\* DeleteScoped without the loop over the props
DeleteScoped_KeepProps(d, instanceIds) ==
  LET deletedDataSources ==
        {k \in DOMAIN d.dataSources :
           /\ d.dataSources[k].scopeInstanceId # undefined
           /\ d.dataSources[k].scopeInstanceId \in instanceIds}
      deletedResources ==
        {d.dataSources[k].resourceId :
           k \in {j \in deletedDataSources : d.dataSources[j].type = "resource"}}
  IN [d EXCEPT
        !.dataSources = MapDeleteAll(@, deletedDataSources),
        !.resources = MapDeleteAll(@, deletedResources),
        !.styleSourceSelections = MapDeleteAll(@, instanceIds)]

\* the props, data sources, resources and selections left once the
\* instances instanceIds are gone
DeleteScoped(d, instanceIds) ==
  LET deletedDataSources ==
        {k \in DOMAIN d.dataSources :
           /\ d.dataSources[k].scopeInstanceId # undefined
           /\ d.dataSources[k].scopeInstanceId \in instanceIds}
      deletedResources ==
        {d.dataSources[k].resourceId :
           k \in {j \in deletedDataSources : d.dataSources[j].type = "resource"}}
  IN [d EXCEPT
        !.props = MapDeleteAll(@, {k \in DOMAIN @ : @[k].instanceId \in instanceIds}),
        !.dataSources = MapDeleteAll(@, deletedDataSources),
        !.resources = MapDeleteAll(@, deletedResources),
        !.styleSourceSelections = MapDeleteAll(@, instanceIds)]

\* the local style sources are gone, and every style declaration with them
DeleteLocalStyles_AllStyles(d, localStyleSourceIds) ==
  [d EXCEPT
     !.styleSources = MapDeleteAll(@, localStyleSourceIds),
     !.styles = MapDeleteAll(@, DOMAIN @)]

\* the local style sources are gone, their style declarations stay
DeleteLocalStyles_KeepDeclarations(d, localStyleSourceIds) ==
  [d EXCEPT !.styleSources = MapDeleteAll(@, localStyleSourceIds)]

\* the style sources and style declarations left once the local style
\* sources localStyleSourceIds are gone
DeleteLocalStyles(d, localStyleSourceIds) ==
  [d EXCEPT
     !.styleSources = MapDeleteAll(@, localStyleSourceIds),
     !.styles = MapDeleteAll(@, {k \in DOMAIN @ :
                                   @[k].styleSourceId \in localStyleSourceIds})]

\* the instances once the target is unlinked from parentInstanceId (when
\* there is a parent) and the instances instanceIds are deleted
DeleteInstances(instances, parentInstanceId, targetInstanceId, instanceIds) ==
  LET unlinked ==
        IF parentInstanceId = undefined THEN instances
        ELSE [instances EXCEPT ![parentInstanceId].children =
                RemoveIdChild(@, targetInstanceId)]
  IN MapDeleteAll(unlinked, instanceIds)

\* the deletion with the content of Portals in the closure
deleteInstanceMutable_ThroughPortals(d, instanceSelector) ==
  IF Len(instanceSelector) = 1
    THEN [data |-> d, result |-> FALSE, toast |-> FALSE]
  ELSE IF ~isInstanceDetachable(d.instances, instanceSelector)
    THEN [data |-> d, result |-> FALSE, toast |-> TRUE]
  ELSE
    LET instances == d.instances
        At(i) == IF i <= Len(instanceSelector) /\ Has(instances, instanceSelector[i])
                   THEN instanceSelector[i] ELSE undefined
        parentInstanceId == At(2)
        grandparentInstanceId == At(3)
        absorbed ==
          /\ parentInstanceId # undefined
          /\ instances[parentInstanceId].component = "Fragment"
          /\ Len(instances[parentInstanceId].children) = 1
          /\ grandparentInstanceId # undefined
        targetInstanceId == IF absorbed THEN parentInstanceId ELSE instanceSelector[1]
        collection ==
          /\ grandparentInstanceId # undefined
          /\ instances[grandparentInstanceId].component = collectionComponent
        parentInstance ==
          IF absorbed \/ collection THEN grandparentInstanceId ELSE parentInstanceId
        instanceIds ==
          findTreeInstanceIds(instances, targetInstanceId)
        localStyleSourceIds ==
          findLocalStyleSourcesWithinInstances(
            Values(d.styleSources), Values(d.styleSourceSelections), instanceIds)
        unlinked ==
          [d EXCEPT !.instances =
             DeleteInstances(@, parentInstance, targetInstanceId, instanceIds)]
    IN [data |-> DeleteLocalStyles(DeleteScoped(unlinked, instanceIds),
                                   localStyleSourceIds),
        result |-> TRUE, toast |-> FALSE]

\* a Fragment is never deleted with its last child
deleteInstanceMutable_NoAbsorption(d, instanceSelector) ==
  IF Len(instanceSelector) = 1
    THEN [data |-> d, result |-> FALSE, toast |-> FALSE]
  ELSE IF ~isInstanceDetachable(d.instances, instanceSelector)
    THEN [data |-> d, result |-> FALSE, toast |-> TRUE]
  ELSE
    LET instances == d.instances
        At(i) == IF i <= Len(instanceSelector) /\ Has(instances, instanceSelector[i])
                   THEN instanceSelector[i] ELSE undefined
        parentInstanceId == At(2)
        grandparentInstanceId == At(3)
        absorbed == FALSE
        targetInstanceId == IF absorbed THEN parentInstanceId ELSE instanceSelector[1]
        collection ==
          /\ grandparentInstanceId # undefined
          /\ instances[grandparentInstanceId].component = collectionComponent
        parentInstance ==
          IF absorbed \/ collection THEN grandparentInstanceId ELSE parentInstanceId
        instanceIds ==
          findTreeInstanceIdsExcludingSlotDescendants(instances, targetInstanceId)
        localStyleSourceIds ==
          findLocalStyleSourcesWithinInstances(
            Values(d.styleSources), Values(d.styleSourceSelections), instanceIds)
        unlinked ==
          [d EXCEPT !.instances =
             DeleteInstances(@, parentInstance, targetInstanceId, instanceIds)]
    IN [data |-> DeleteLocalStyles(DeleteScoped(unlinked, instanceIds),
                                   localStyleSourceIds),
        result |-> TRUE, toast |-> FALSE]

\* deleteInstanceMutable(data, instanceSelector)
deleteInstanceMutable(d, instanceSelector) ==
  IF Len(instanceSelector) = 1
    THEN [data |-> d, result |-> FALSE, toast |-> FALSE]
  ELSE IF ~isInstanceDetachable(d.instances, instanceSelector)
    THEN [data |-> d, result |-> FALSE, toast |-> TRUE]
  ELSE
    LET instances == d.instances
        At(i) == IF i <= Len(instanceSelector) /\ Has(instances, instanceSelector[i])
                   THEN instanceSelector[i] ELSE undefined
        parentInstanceId == At(2)
        grandparentInstanceId == At(3)
        absorbed ==
          /\ parentInstanceId # undefined
          /\ instances[parentInstanceId].component = "Fragment"
          /\ Len(instances[parentInstanceId].children) = 1
          /\ grandparentInstanceId # undefined
        targetInstanceId == IF absorbed THEN parentInstanceId ELSE instanceSelector[1]
        collection ==
          /\ grandparentInstanceId # undefined
          /\ instances[grandparentInstanceId].component = collectionComponent
        parentInstance ==
          IF absorbed \/ collection THEN grandparentInstanceId ELSE parentInstanceId
        instanceIds ==
          findTreeInstanceIdsExcludingSlotDescendants(instances, targetInstanceId)
        localStyleSourceIds ==
          findLocalStyleSourcesWithinInstances(
            Values(d.styleSources), Values(d.styleSourceSelections), instanceIds)
        unlinked ==
          [d EXCEPT !.instances =
             DeleteInstances(@, parentInstance, targetInstanceId, instanceIds)]
    IN [data |-> DeleteLocalStyles(DeleteScoped(unlinked, instanceIds),
                                   localStyleSourceIds),
        result |-> TRUE, toast |-> FALSE]

----------------------------------------------------------------------------
(* extractWebstudioFragment                                                *)

\* the identifiers of an expression that does not parse are added too
collectUsedDataSources_Unparsed(expression, usedDataSourceIds) ==
  usedDataSourceIds \cup DecodedIds(expression)

\* try { validateExpression(expression, ...) } catch {}: the ids the
\* identifiers of the expression decode to are added, none when the
\* expression does not parse
collectUsedDataSources(expression, usedDataSourceIds) ==
  IF Throws(expression) THEN usedDataSourceIds
  ELSE usedDataSourceIds \cup DecodedIds(expression)

CollectAll(codes) == UNION {collectUsedDataSources(c, {}) : c \in codes}

\* the selections of the fragment instances, and the style sources they
\* name, in the order they are met
FragmentStyleSourceSelections(d, fragmentInstanceIds) ==
  MapSeq(SelectSeq(fragmentInstanceIds,
                   LAMBDA id : Has(d.styleSourceSelections, id)),
         LAMBDA id : d.styleSourceSelections[id])

FragmentStyleSourceIds(d, selections) ==
  SelectSeq(Dedupe(FlatMap(MapSeq(selections, LAMBDA sel : sel.values), 1), {}),
            LAMBDA id : Has(d.styleSources, id))

\* the style declarations bound to the style sources, and the breakpoints
\* they name
FragmentStyles(d, styleSourceIds) ==
  MapSeq(AnySeq({k \in DOMAIN d.styles : d.styles[k].styleSourceId \in styleSourceIds}),
         LAMBDA k : d.styles[k])

FragmentBreakpointIds(d, styles) ==
  SelectSeq(Dedupe(MapSeq(styles, LAMBDA styleDecl : styleDecl.breakpointId), {}),
            LAMBDA id : Has(d.breakpoints, id))

FragmentProps(d, fragmentInstanceIds) ==
  MapSeq(SetToSeq({k \in DOMAIN d.props :
                     d.props[k].instanceId \in fragmentInstanceIds}),
         LAMBDA k : d.props[k])

\* every data source of the document is taken into the fragment
FragmentDataSourceIds_All(d, fragmentInstanceIds, usedDataSourceIds) ==
  SetToSeq(DOMAIN d.dataSources)

\* the data sources scoped to the fragment instances or used by their code
FragmentDataSourceIds(d, fragmentInstanceIds, usedDataSourceIds) ==
  SetToSeq({k \in DOMAIN d.dataSources :
              \/ /\ d.dataSources[k].scopeInstanceId # undefined
                 /\ d.dataSources[k].scopeInstanceId \in fragmentInstanceIds
              \/ k \in usedDataSourceIds})

\* the resources of the resource data sources among dataSourceIds
FragmentResources(d, dataSourceIds) ==
  MapSeq(SelectSeq(Dedupe(MapSeq(SelectSeq(dataSourceIds,
                                           LAMBDA k : d.dataSources[k].type = "resource"),
                                 LAMBDA k : d.dataSources[k].resourceId), {}),
                   LAMBDA id : Has(d.resources, id)),
         LAMBDA id : d.resources[id])

\* the fragment data sources without the pass over the code of the resources
WithResourceDataSources_NoSecondPass(d, dataSourceIds, resources) == dataSourceIds

\* the data sources used by the code of the resources are added to the
\* fragment data sources
WithResourceDataSources(d, dataSourceIds, resources) ==
  LET dataSourceIdsUsedInResources ==
        UnionSeq(resources, LAMBDA resource : CollectAll(ResourceCodes(resource)))
  IN dataSourceIds \o
     SetToSeq({k \in DOMAIN d.dataSources :
                 k \in dataSourceIdsUsedInResources /\ k \notin Range(dataSourceIds)})

FragmentAssets(d, fragmentAssetIds, fragmentFontFamilies) ==
  MapSeq(SetToSeq({k \in DOMAIN d.assets :
                     \/ k \in fragmentAssetIds
                     \/ /\ d.assets[k].type = "font"
                        /\ d.assets[k].meta.family \in fragmentFontFamilies}),
         LAMBDA k : d.assets[k])

\* the collection stops at the Portals
extractWebstudioFragment_StopAtPortals(d, rootInstanceId) ==
  LET fragmentInstanceIds == findTreeInstanceIdsExcludingSlotDescendantsOrdered(d.instances,
                                                          rootInstanceId)
      idSet == Range(fragmentInstanceIds)
      fragmentInstances ==
        MapSeq(SelectSeq(fragmentInstanceIds, LAMBDA id : Has(d.instances, id)),
               LAMBDA id : d.instances[id])
      selections == FragmentStyleSourceSelections(d, fragmentInstanceIds)
      styleSourceIds == FragmentStyleSourceIds(d, selections)
      styles == FragmentStyles(d, Range(styleSourceIds))
      breakpointIds == FragmentBreakpointIds(d, styles)
      props == FragmentProps(d, idSet)
      usedDataSourceIds ==
        UnionSeq(fragmentInstances, LAMBDA instance : CollectAll(InstanceCodes(instance)))
        \cup UnionSeq(props, LAMBDA prop : CollectAll(PropCodes(prop)))
      fragmentAssetIds ==
        UnionSeq(styles, StyleDeclAssetIds)
        \cup {prop.assetId : prop \in {q \in Range(props) : q.type = "asset"}}
      fragmentFontFamilies == UnionSeq(styles, StyleDeclFontFamilies)
      scopedOrUsed == FragmentDataSourceIds(d, idSet, usedDataSourceIds)
      resources == FragmentResources(d, scopedOrUsed)
      dataSourceIds == WithResourceDataSources(d, scopedOrUsed, resources)
  IN [children |-> <<IdChild(rootInstanceId)>>,
      instances |-> fragmentInstances,
      styleSourceSelections |-> selections,
      styleSources |-> MapSeq(styleSourceIds, LAMBDA id : d.styleSources[id]),
      breakpoints |-> MapSeq(breakpointIds, LAMBDA id : d.breakpoints[id]),
      styles |-> styles,
      dataSources |-> MapSeq(dataSourceIds, LAMBDA k : d.dataSources[k]),
      resources |-> resources,
      props |-> props,
      assets |-> FragmentAssets(d, fragmentAssetIds, fragmentFontFamilies)]

extractWebstudioFragment(d, rootInstanceId) ==
  LET fragmentInstanceIds == findTreeInstanceIdsOrdered(d.instances, rootInstanceId)
      idSet == Range(fragmentInstanceIds)
      fragmentInstances ==
        MapSeq(SelectSeq(fragmentInstanceIds, LAMBDA id : Has(d.instances, id)),
               LAMBDA id : d.instances[id])
      selections == FragmentStyleSourceSelections(d, fragmentInstanceIds)
      styleSourceIds == FragmentStyleSourceIds(d, selections)
      styles == FragmentStyles(d, Range(styleSourceIds))
      breakpointIds == FragmentBreakpointIds(d, styles)
      props == FragmentProps(d, idSet)
      usedDataSourceIds ==
        UnionSeq(fragmentInstances, LAMBDA instance : CollectAll(InstanceCodes(instance)))
        \cup UnionSeq(props, LAMBDA prop : CollectAll(PropCodes(prop)))
      fragmentAssetIds ==
        UnionSeq(styles, StyleDeclAssetIds)
        \cup {prop.assetId : prop \in {q \in Range(props) : q.type = "asset"}}
      fragmentFontFamilies == UnionSeq(styles, StyleDeclFontFamilies)
      scopedOrUsed == FragmentDataSourceIds(d, idSet, usedDataSourceIds)
      resources == FragmentResources(d, scopedOrUsed)
      dataSourceIds == WithResourceDataSources(d, scopedOrUsed, resources)
  IN [children |-> <<IdChild(rootInstanceId)>>,
      instances |-> fragmentInstances,
      styleSourceSelections |-> selections,
      styleSources |-> MapSeq(styleSourceIds, LAMBDA id : d.styleSources[id]),
      breakpoints |-> MapSeq(breakpointIds, LAMBDA id : d.breakpoints[id]),
      styles |-> styles,
      dataSources |-> MapSeq(dataSourceIds, LAMBDA k : d.dataSources[k]),
      resources |-> resources,
      props |-> props,
      assets |-> FragmentAssets(d, fragmentAssetIds, fragmentFontFamilies)]

----------------------------------------------------------------------------
(* findAvailableDataSources, inlineUnavailableDataSources and              *)
(* replaceDataSources                                                      *)

RECURSIVE BeforePortal(_, _, _)
\* the instances of the selector met before its first Portal
BeforePortal(instances, instanceSelector, i) ==
  IF i > Len(instanceSelector) THEN {}
  ELSE IF /\ Has(instances, instanceSelector[i])
          /\ instances[instanceSelector[i]].component = portalComponent
    THEN {}
  ELSE {instanceSelector[i]} \cup BeforePortal(instances, instanceSelector, i + 1)

\* the scan of the selector does not stop at a Portal
findAvailableDataSources_ThroughPortals(dataSources, instances, instanceSelector) ==
  {k \in DOMAIN dataSources :
     /\ dataSources[k].scopeInstanceId # undefined
     /\ dataSources[k].scopeInstanceId \in Range(instanceSelector)}

findAvailableDataSources(dataSources, instances, instanceSelector) ==
  LET instanceIds == BeforePortal(instances, instanceSelector, 1) IN
  {k \in DOMAIN dataSources :
     /\ dataSources[k].scopeInstanceId # undefined
     /\ dataSources[k].scopeInstanceId \in instanceIds}

\* no identifier is inlined
InlineIdentifier_Keep(identifier, availableDataSources, dataSources) == identifier

\* every unavailable data source becomes the placeholder
InlineIdentifier_Placeholder(identifier, availableDataSources, dataSources) ==
  LET dataSourceId == decodeDataSourceVariable(identifier) IN
  IF dataSourceId = undefined \/ dataSourceId \in availableDataSources
    THEN identifier
  ELSE Literal("{}")

\* transformIdentifier of inlineUnavailableDataSources
InlineIdentifier(identifier, availableDataSources, dataSources) ==
  LET dataSourceId == decodeDataSourceVariable(identifier) IN
  IF dataSourceId = undefined \/ dataSourceId \in availableDataSources
    THEN identifier
  ELSE IF /\ Has(dataSources, dataSourceId)
          /\ dataSources[dataSourceId].type = "variable"
    THEN Literal(JSONstringify(dataSources[dataSourceId].value.value))
  ELSE Literal("{}")

\* some identifier of a data source is an assignment target
IsDiscarded_AnyAssignee(code, availableDataSources) ==
  \E i \in DOMAIN code.toks :
    LET tok == code.toks[i] IN
    /\ tok.text.kind = "ident"
    /\ tok.assignee
    /\ decodeDataSourceVariable(tok.text) # undefined

\* no code is discarded
IsDiscarded_Never(code, availableDataSources) == FALSE

\* some identifier of an unavailable data source is an assignment target
IsDiscarded(code, availableDataSources) ==
  \E i \in DOMAIN code.toks :
    LET tok == code.toks[i] IN
    /\ tok.text.kind = "ident"
    /\ tok.assignee
    /\ decodeDataSourceVariable(tok.text) # undefined
    /\ decodeDataSourceVariable(tok.text) \notin availableDataSources

\* throws when Throws(code)
inlineUnavailableDataSources(code, availableDataSources, dataSources) ==
  [code |-> validateExpression(code,
              LAMBDA identifier, assignee :
                InlineIdentifier(identifier, availableDataSources, dataSources)),
   isDiscarded |-> IsDiscarded(code, availableDataSources)]

\* every identifier is encoded anew
ReplaceIdentifier_EncodeAll(identifier, replacements) ==
  encodeDataSourceVariable(GetOr(replacements, identifier.rest, identifier.rest))

\* transformIdentifier of replaceDataSources
ReplaceIdentifier(identifier, replacements) ==
  LET dataSourceId == decodeDataSourceVariable(identifier) IN
  IF dataSourceId = undefined THEN identifier
  ELSE encodeDataSourceVariable(
         IF Has(replacements, dataSourceId) THEN replacements[dataSourceId]
         ELSE dataSourceId)

\* the code with its identifiers left as they are
replaceDataSources_Identity(code, replacements) == code

\* throws when Throws(code)
replaceDataSources(code, replacements) ==
  validateExpression(code,
    LAMBDA identifier, assignee : ReplaceIdentifier(identifier, replacements))

----------------------------------------------------------------------------
(* insertWebstudioFragmentCopy.  The call is a sequence of loops over the  *)
(* arrays of the fragment; st is the state they update: the tables, the    *)
(* maps of the call, the next id, and whether an exception was thrown.     *)

\* the fragment instances as a Map, and the id-children of its Portals
FragmentInstancesMap(fragment) ==
  [k \in {instance.id : instance \in Range(fragment.instances)} |->
     LET last == CHOOSE i \in DOMAIN fragment.instances :
                   /\ fragment.instances[i].id = k
                   /\ \A j \in DOMAIN fragment.instances :
                        fragment.instances[j].id = k => j <= i
     IN fragment.instances[last]]

FragmentDataSourcesMap(fragment) ==
  [k \in {dataSource.id : dataSource \in Range(fragment.dataSources)} |->
     LET last == CHOOSE i \in DOMAIN fragment.dataSources :
                   /\ fragment.dataSources[i].id = k
                   /\ \A j \in DOMAIN fragment.dataSources :
                        fragment.dataSources[j].id = k => j <= i
     IN fragment.dataSources[last]]

PortalContentIds(fragment) ==
  Dedupe(FlatMap(MapSeq(fragment.instances,
                        LAMBDA instance :
                          IF instance.component = portalComponent
                            THEN MapSeq(SelectSeq(instance.children,
                                                  LAMBDA child : child.type = "id"),
                                        LAMBDA child : child.value)
                            ELSE <<>>), 1), {})

\* the rewriting of a resource, of the children of an instance and of a
\* prop by R, and whether it throws when T tells which code strings throw
\* instance-utils.ts:1089-1115 and 1267-1300
RewriteResource(resource, R(_)) ==
  [resource EXCEPT
     !.url = R(resource.url),
     !.headers = MapSeq(resource.headers, LAMBDA header : Header(header.name, R(header.value))),
     !.body = MapSeq(resource.body, R)]

\* instance-utils.ts:898 and 928: validateExpression throws inside a rewriter
SomeThrows(codes, T(_)) == \E code \in codes : T(code)

\* the steps of an action: an execute step is dropped when it is discarded
\* instance-utils.ts:1156-1169 and 1354-1367
RewriteSteps(steps, R(_), D(_)) ==
  FlatMap(MapSeq(steps, LAMBDA step :
                   IF step.type # "execute" THEN <<step>>
                   ELSE IF D(step.code) THEN <<>>
                   ELSE <<[step EXCEPT !.code = R(step.code)]>>), 1)

\* instance-utils.ts:1145-1171 and 1345-1371
RewriteProp(prop, R(_), D(_)) ==
  CASE prop.type = "expression" -> [prop EXCEPT !.code = R(prop.code)]
    [] prop.type = "action" -> [prop EXCEPT !.steps = RewriteSteps(prop.steps, R, D)]
    [] OTHER -> prop

\* every asset of the fragment is set
InsertAssets_Overwrite(st, fragment, projectId) ==
  Fold(LAMBDA s, asset :
         [s EXCEPT !.data.assets =
            MapSet(@, asset.id, [asset EXCEPT !.projectId = projectId])],
       st, fragment.assets, 1)

\* insert assets
InsertAssets(st, fragment, projectId) ==
  Fold(LAMBDA s, asset :
         IF Has(s.data.assets, asset.id) THEN s
         ELSE [s EXCEPT !.data.assets =
                 MapSet(@, asset.id, [asset EXCEPT !.projectId = projectId])],
       st, fragment.assets, 1)

\* every fragment breakpoint is inserted under a new id
MergeBreakpoint_Mint(s, newBreakpoint) ==
  [s EXCEPT !.data.breakpoints =
              MapSet(@, s.nextId, [newBreakpoint EXCEPT !.id = s.nextId]),
            !.mergedBreakpointIds = MapSet(@, newBreakpoint.id, s.nextId),
            !.nextId = @ + 1]

\* every fragment breakpoint is inserted under its own id
MergeBreakpoint_NoMerge(s, newBreakpoint) ==
  [s EXCEPT !.data.breakpoints = MapSet(@, newBreakpoint.id, newBreakpoint)]

\* merge breakpoints: the first breakpoint of the target with equal media
\* (the Map is iterated by ascending id)
MergeBreakpoint(s, newBreakpoint) ==
  LET matches == {k \in DOMAIN s.data.breakpoints :
                    equalMedia(s.data.breakpoints[k], newBreakpoint)}
  IN IF matches # {}
       THEN [s EXCEPT !.mergedBreakpointIds = MapSet(@, newBreakpoint.id, Min(matches))]
       ELSE [s EXCEPT !.data.breakpoints = MapSet(@, newBreakpoint.id, newBreakpoint)]

MergeBreakpoints(st, fragment) == Fold(MergeBreakpoint, st, fragment.breakpoints, 1)

\* styles.set(getStyleDeclKey(newStyleDecl), newStyleDecl) with the
\* breakpoint merged and the style source renamed
SetStyleDecl(s, styleDecl, styleSourceId) ==
  LET newStyleDecl ==
        [styleDecl EXCEPT
           !.styleSourceId = styleSourceId,
           !.breakpointId = GetOr(s.mergedBreakpointIds, styleDecl.breakpointId,
                                  styleDecl.breakpointId)]
  IN [s EXCEPT !.data.styles = MapSet(@, getStyleDeclKey(newStyleDecl), newStyleDecl)]

\* insert tokens with their styles
InsertTokenStyleSource(s, styleSource) ==
  IF styleSource.type = "local" \/ Has(s.data.styleSources, styleSource.id) THEN s
  ELSE [s EXCEPT !.tokenStyleSourceIds = @ \cup {styleSource.id},
                 !.data.styleSources = MapSet(@, styleSource.id, styleSource)]

InsertTokenStyle(s, styleDecl) ==
  IF styleDecl.styleSourceId \in s.tokenStyleSourceIds
    THEN SetStyleDecl(s, styleDecl, styleDecl.styleSourceId)
    ELSE s

InsertTokens(st, fragment) ==
  Fold(InsertTokenStyle,
       Fold(InsertTokenStyleSource, st, fragment.styleSources, 1),
       fragment.styles, 1)

\* insert the portal content rooted at rootInstanceId under its own ids
InsertPortalContent(st, fragment, availableDataSources, rootInstanceId) ==
  IF Has(st.data.instances, rootInstanceId) THEN st
  ELSE
    LET fragmentDataSources == FragmentDataSourcesMap(fragment)
        instanceIds ==
          findTreeInstanceIdsExcludingSlotDescendants(
            FragmentInstancesMap(fragment), rootInstanceId)
        scoped == SelectSeq(fragment.dataSources,
                            LAMBDA dataSource :
                              /\ dataSource.scopeInstanceId # undefined
                              /\ dataSource.scopeInstanceId \in instanceIds)
        availablePortalDataSources ==
          availableDataSources \cup {dataSource.id : dataSource \in Range(scoped)}
        usedResourceIds ==
          {dataSource.resourceId :
             dataSource \in {x \in Range(scoped) : x.type = "resource"}}
        R(code) ==
          inlineUnavailableDataSources(code, availablePortalDataSources,
                                       fragmentDataSources).code
        D(code) == IsDiscarded(code, availablePortalDataSources)
        s1 == Fold(LAMBDA s, dataSource :
                     [s EXCEPT !.data.dataSources = MapSet(@, dataSource.id, dataSource)],
                   st, scoped, 1)
        s2 == Fold(LAMBDA s, resource :
                     IF resource.id \notin usedResourceIds THEN s
                     ELSE IF SomeThrows(ResourceCodes(resource), Throws)
                       THEN [s EXCEPT !.threw = TRUE]
                     ELSE [s EXCEPT !.data.resources =
                             MapSet(@, resource.id, RewriteResource(resource, R))],
                   s1, fragment.resources, 1)
        s3 == Fold(LAMBDA s, instance :
                     IF instance.id \notin instanceIds THEN s
                     ELSE IF SomeThrows(InstanceCodes(instance), Throws)
                       THEN [s EXCEPT !.threw = TRUE]
                     ELSE [s EXCEPT !.data.instances =
                             MapSet(@, instance.id,
                               [instance EXCEPT !.children =
                                  MapSeq(instance.children, LAMBDA child :
                                    IF child.type = "expression"
                                      THEN ExpressionChild(R(child.code))
                                      ELSE child)])],
                   s2, fragment.instances, 1)
        s4 == Fold(LAMBDA s, prop :
                     IF prop.instanceId \notin instanceIds THEN s
                     ELSE IF SomeThrows(PropCodes(prop), Throws)
                       THEN [s EXCEPT !.threw = TRUE]
                     ELSE [s EXCEPT !.data.props =
                             MapSet(@, prop.id, RewriteProp(prop, R, D))],
                   s3, fragment.props, 1)
        selections == SelectSeq(fragment.styleSourceSelections,
                                LAMBDA sel : sel.instanceId \in instanceIds)
        instanceStyleSourceIds == UnionSeq(selections, LAMBDA sel : Range(sel.values))
        s5 == Fold(LAMBDA s, sel :
                     [s EXCEPT !.data.styleSourceSelections = MapSet(@, sel.instanceId, sel)],
                   s4, selections, 1)
        localStyleSourceIds ==
          {styleSource.id :
             styleSource \in {x \in Range(fragment.styleSources) :
                                x.type = "local" /\ x.id \in instanceStyleSourceIds}}
        s6 == Fold(LAMBDA s, styleSource :
                     IF styleSource.id \in localStyleSourceIds
                       THEN [s EXCEPT !.data.styleSources =
                               MapSet(@, styleSource.id, styleSource)]
                       ELSE s,
                   s5, fragment.styleSources, 1)
    IN Fold(LAMBDA s, styleDecl :
              IF styleDecl.styleSourceId \in localStyleSourceIds
                THEN SetStyleDecl(s, styleDecl, styleDecl.styleSourceId)
                ELSE s,
            s6, fragment.styles, 1)

\* no portal content is inserted
InsertPortalContents_Skip(st, fragment, availableDataSources) == st

InsertPortalContents(st, fragment, availableDataSources) ==
  Fold(LAMBDA s, rootInstanceId :
         InsertPortalContent(s, fragment, availableDataSources, rootInstanceId),
       st, PortalContentIds(fragment), 1)

\* every instance gets the same new id
MintInstanceIds_Same(st, fragmentInstanceIds) ==
  Fold(LAMBDA s, instanceId :
         [s EXCEPT !.newInstanceIds = MapSet(@, instanceId, st.nextId),
                   !.nextId = st.nextId + 1],
       st, fragmentInstanceIds, 1)

\* no id is generated: the instances are stored under the ids they have
MintInstanceIds_None(st, fragmentInstanceIds) == st

\* generate new ids only for the instances outside of portals
MintInstanceIds(st, fragmentInstanceIds) ==
  Fold(LAMBDA s, instanceId :
         [s EXCEPT !.newInstanceIds = MapSet(@, instanceId, s.nextId),
                   !.nextId = @ + 1],
       st, fragmentInstanceIds, 1)

\* the data sources scoped to the instances get new ids but keep the scope
\* they have in the fragment
InsertUniqueDataSource_KeepScope(s, dataSource, fragmentInstanceIds) ==
  IF ~(/\ dataSource.scopeInstanceId # undefined
       /\ dataSource.scopeInstanceId \in fragmentInstanceIds)
    THEN s
  ELSE
    LET newDataSourceId == s.nextId
        newResourceId == s.nextId + 1
    IN IF dataSource.type = "resource"
         THEN [s EXCEPT
                 !.nextId = @ + 2,
                 !.newDataSourceIds = MapSet(@, dataSource.id, newDataSourceId),
                 !.newResourceIds = MapSet(@, dataSource.resourceId, newResourceId),
                 !.data.dataSources =
                   MapSet(@, newDataSourceId,
                          [dataSource EXCEPT !.id = newDataSourceId,
                                             !.resourceId = newResourceId])]
         ELSE [s EXCEPT
                 !.nextId = @ + 1,
                 !.newDataSourceIds = MapSet(@, dataSource.id, newDataSourceId),
                 !.data.dataSources =
                   MapSet(@, newDataSourceId,
                          [dataSource EXCEPT !.id = newDataSourceId])]

\* the data sources scoped to the instances get new ids, and so do the
\* resources of those that are resources
InsertUniqueDataSource(s, dataSource, fragmentInstanceIds) ==
  IF ~(/\ dataSource.scopeInstanceId # undefined
       /\ dataSource.scopeInstanceId \in fragmentInstanceIds)
    THEN s
  ELSE
    LET newDataSourceId == s.nextId
        newResourceId == s.nextId + 1
        scopeInstanceId ==
          GetOr(s.newInstanceIds, dataSource.scopeInstanceId, undefined)
    IN IF dataSource.type = "resource"
         THEN [s EXCEPT
                 !.nextId = @ + 2,
                 !.newDataSourceIds = MapSet(@, dataSource.id, newDataSourceId),
                 !.newResourceIds = MapSet(@, dataSource.resourceId, newResourceId),
                 !.data.dataSources =
                   MapSet(@, newDataSourceId,
                          [dataSource EXCEPT !.id = newDataSourceId,
                                             !.scopeInstanceId = scopeInstanceId,
                                             !.resourceId = newResourceId])]
         ELSE [s EXCEPT
                 !.nextId = @ + 1,
                 !.newDataSourceIds = MapSet(@, dataSource.id, newDataSourceId),
                 !.data.dataSources =
                   MapSet(@, newDataSourceId,
                          [dataSource EXCEPT !.id = newDataSourceId,
                                             !.scopeInstanceId = scopeInstanceId])]

\* the children of a copied instance
\* instance-utils.ts:1309-1328
UniqueChildren(children, newInstanceIds, R(_)) ==
  MapSeq(children, LAMBDA child :
    CASE child.type = "id" -> IdChild(GetOr(newInstanceIds, child.value, child.value))
      [] child.type = "expression" -> ExpressionChild(R(child.code))
      [] OTHER -> child)

\* a copied prop: its code rewritten, the data source of a parameter renamed
\* instance-utils.ts:1338-1372
UniqueProp(prop, newDataSourceIds, R(_), D(_)) ==
  IF prop.type = "parameter"
    THEN [prop EXCEPT !.dataSourceId = GetOr(newDataSourceIds, @, @)]
    ELSE RewriteProp(prop, R, D)

\* insert the unique content: the instances outside of portals, their data
\* sources, resources and props under new ids
InsertUniqueContent(st, fragment, availableDataSources) ==
  IF st.threw THEN st
  ELSE IF Len(fragment.instances) = 0 THEN [st EXCEPT !.threw = TRUE]
  ELSE
    LET fragmentDataSources == FragmentDataSourcesMap(fragment)
        ordered ==
          findTreeInstanceIdsExcludingSlotDescendantsOrdered(
            FragmentInstancesMap(fragment), fragment.instances[1].id)
        fragmentInstanceIds == Range(ordered)
        s1 == MintInstanceIds(st, ordered)
        scoped == {dataSource \in Range(fragment.dataSources) :
                     /\ dataSource.scopeInstanceId # undefined
                     /\ dataSource.scopeInstanceId \in fragmentInstanceIds}
        availableFragmentDataSources ==
          availableDataSources \cup {dataSource.id : dataSource \in scoped}
        usedResourceIds ==
          {dataSource.resourceId : dataSource \in {x \in scoped : x.type = "resource"}}
        s2 == Fold(LAMBDA s, dataSource :
                     InsertUniqueDataSource(s, dataSource, fragmentInstanceIds),
                   s1, fragment.dataSources, 1)
        I(code) ==
          inlineUnavailableDataSources(code, availableFragmentDataSources,
                                       fragmentDataSources).code
        R(code) == replaceDataSources(I(code), s2.newDataSourceIds)
        D(code) == IsDiscarded(code, availableFragmentDataSources)
        T(code) == Throws(code) \/ Throws(I(code))
        TStep(code) == Throws(code) \/ (~D(code) /\ Throws(I(code)))
        PropThrows(prop) ==
          CASE prop.type = "expression" -> T(prop.code)
            [] prop.type = "action" -> SomeThrows(PropCodes(prop), TStep)
            [] OTHER -> FALSE
        s3 == Fold(LAMBDA s, resource :
                     IF resource.id \notin usedResourceIds THEN s
                     ELSE IF SomeThrows(ResourceCodes(resource), T)
                       THEN [s EXCEPT !.threw = TRUE]
                     ELSE LET newResourceId ==
                                GetOr(s.newResourceIds, resource.id, resource.id)
                          IN [s EXCEPT !.data.resources =
                                MapSet(@, newResourceId,
                                  [RewriteResource(resource, R) EXCEPT
                                     !.id = newResourceId])],
                   s2, fragment.resources, 1)
        s4 == Fold(LAMBDA s, instance :
                     IF instance.id \notin fragmentInstanceIds THEN s
                     ELSE IF SomeThrows(InstanceCodes(instance), T)
                       THEN [s EXCEPT !.threw = TRUE]
                     ELSE LET newId == GetOr(s.newInstanceIds, instance.id, instance.id)
                          IN [s EXCEPT !.data.instances =
                                MapSet(@, newId,
                                  [instance EXCEPT
                                     !.id = newId,
                                     !.children =
                                       UniqueChildren(instance.children,
                                                      s.newInstanceIds, R)])],
                   s3, fragment.instances, 1)
        s5 == Fold(LAMBDA s, prop :
                     IF prop.instanceId \notin fragmentInstanceIds THEN s
                     ELSE IF PropThrows(prop) THEN [s EXCEPT !.threw = TRUE]
                     ELSE LET newId == s.nextId IN
                          [s EXCEPT
                             !.nextId = @ + 1,
                             !.newPropIds = MapSet(@, prop.id, newId),
                             !.data.props =
                               MapSet(@, newId,
                                 [UniqueProp(prop, s.newDataSourceIds, R, D) EXCEPT
                                    !.id = newId,
                                    !.instanceId =
                                      GetOr(s.newInstanceIds, prop.instanceId,
                                            prop.instanceId)])],
                   s4, fragment.props, 1)
        selections == SelectSeq(fragment.styleSourceSelections,
                                LAMBDA sel : sel.instanceId \in fragmentInstanceIds)
        instanceStyleSourceIds == UnionSeq(selections, LAMBDA sel : Range(sel.values))
        s6 == Fold(LAMBDA s, styleSource :
                     IF styleSource.type = "local"
                        /\ styleSource.id \in instanceStyleSourceIds
                       THEN LET newId == s.nextId IN
                            [s EXCEPT
                               !.nextId = @ + 1,
                               !.newLocalStyleSourceIds = MapSet(@, styleSource.id, newId),
                               !.data.styleSources =
                                 MapSet(@, newId, [styleSource EXCEPT !.id = newId])]
                       ELSE s,
                   s5, fragment.styleSources, 1)
        s7 == Fold(LAMBDA s, sel :
                     LET newInstanceId ==
                           GetOr(s.newInstanceIds, sel.instanceId, sel.instanceId)
                     IN [s EXCEPT !.data.styleSourceSelections =
                           MapSet(@, newInstanceId,
                             StyleSourceSelection(newInstanceId,
                               MapSeq(sel.values, LAMBDA styleSourceId :
                                 GetOr(s.newLocalStyleSourceIds, styleSourceId,
                                       styleSourceId))))],
                   s6, selections, 1)
    IN Fold(LAMBDA s, styleDecl :
              IF Has(s.newLocalStyleSourceIds, styleDecl.styleSourceId)
                THEN SetStyleDecl(s, styleDecl,
                                  s.newLocalStyleSourceIds[styleDecl.styleSourceId])
                ELSE s,
            s7, fragment.styles, 1)

\* the state of a call before its first loop
StartOfCall(d, firstId) ==
  [data |-> d, nextId |-> firstId, threw |-> FALSE,
   mergedBreakpointIds |-> EmptyMap, tokenStyleSourceIds |-> {},
   newInstanceIds |-> EmptyMap, newDataSourceIds |-> EmptyMap,
   newResourceIds |-> EmptyMap, newPropIds |-> EmptyMap,
   newLocalStyleSourceIds |-> EmptyMap]

\* the state the call ends in: newInstanceIds and newDataSourceIds are the
\* maps it returns
insertWebstudioFragmentCopy(d, fragment, availableDataSources, projectId, firstId) ==
  IF projectId = NoProject THEN StartOfCall(d, firstId)
  ELSE InsertUniqueContent(
         InsertPortalContents(
           InsertTokens(
             MergeBreakpoints(
               InsertAssets(StartOfCall(d, firstId), fragment, projectId),
               fragment),
             fragment),
           fragment, availableDataSources),
         fragment, availableDataSources)

----------------------------------------------------------------------------
(* insertTemplateData.                                                     *)

\* the position "end" of a DroppableTarget; any other position is an index
End == -1

DroppableTarget(parentSelector, position) ==
  [parentSelector |-> parentSelector, position |-> position]

\* Array.prototype.splice(position, 0, ...items)
Splice(seq, position, items) ==
  LET at == IF position > Len(seq) THEN Len(seq) ELSE position IN
  SubSeq(seq, 1, at) \o items \o SubSeq(seq, at + 1, Len(seq))

\* getInstanceOrCreateFragmentIfNecessary and
\* wrapEditableChildrenAroundDropTargetMutable leave the target as it is
\* when its parent is neither a Portal nor holds text
PlainTarget(instances, insertTarget) ==
  LET parentInstanceId == insertTarget.parentSelector[1] IN
  Has(instances, parentInstanceId) =>
    /\ instances[parentInstanceId].component # portalComponent
    /\ \A i \in DOMAIN instances[parentInstanceId].children :
         instances[parentInstanceId].children[i].type = "id"

insertInstanceChildrenMutable(d, children, insertTarget) ==
  LET parentInstanceId == insertTarget.parentSelector[1] IN
  IF ~Has(d.instances, parentInstanceId) THEN d
  ELSE [d EXCEPT !.instances[parentInstanceId].children =
          IF insertTarget.position = End
            THEN @ \o children
            ELSE Splice(@, insertTarget.position, children)]

\* insertPropsCopyMutable(props, insertedProps, new Map()): no instance is
\* renamed, the props are set under their ids
insertPropsCopyMutable(props, copiedProps) ==
  Fold(LAMBDA s, prop : [s EXCEPT !.props = MapSet(@, prop.id, prop)],
       [props |-> props, threw |-> FALSE], copiedProps, 1).props

\* the style sources the target lacks, the only ones whose styles are set
InsertedStyleSources(styleSources, templateData) ==
  {styleSource.id :
     styleSource \in {x \in Range(templateData.styleSources) :
                        ~Has(styleSources, x.id)}}

\* every style source of the template is set, and every style declaration
InsertTemplateStyles_Always(d, templateData) ==
  LET s1 == Fold(LAMBDA s, styleSource :
                   [s EXCEPT !.data.styleSources =
                      MapSet(@, styleSource.id, styleSource)],
                 [data |-> d, threw |-> FALSE], templateData.styleSources, 1)
      s2 == Fold(LAMBDA s, styleDecl :
                   [s EXCEPT !.data.styles =
                      MapSet(@, getStyleDeclKey(styleDecl), styleDecl)],
                 s1, templateData.styles, 1)
  IN s2.data

\* insert only new style sources and their styles
InsertTemplateStyles(d, templateData) ==
  LET insertedStyleSources == InsertedStyleSources(d.styleSources, templateData)
      s1 == Fold(LAMBDA s, styleSource :
                   IF styleSource.id \in insertedStyleSources
                     THEN [s EXCEPT !.data.styleSources =
                             MapSet(@, styleSource.id, styleSource)]
                     ELSE s,
                 [data |-> d, threw |-> FALSE], templateData.styleSources, 1)
      s2 == Fold(LAMBDA s, styleDecl :
                   IF styleDecl.styleSourceId \in insertedStyleSources
                     THEN [s EXCEPT !.data.styles =
                             MapSet(@, getStyleDeclKey(styleDecl), styleDecl)]
                     ELSE s,
                 s1, templateData.styles, 1)
  IN s2.data

\* the mutation insertTemplateData passes to updateWebstudioData
insertTemplateData(d, templateData, dropTarget) ==
  LET d1 == Fold(LAMBDA s, instance :
                   [s EXCEPT !.data.instances = MapSet(@, instance.id, instance)],
                 [data |-> d, threw |-> FALSE], templateData.instances, 1).data
      d2 == insertInstanceChildrenMutable(d1, templateData.children, dropTarget)
      d3 == [d2 EXCEPT !.props = insertPropsCopyMutable(@, templateData.props)]
      d4 == Fold(LAMBDA s, dataSource :
                   [s EXCEPT !.data.dataSources =
                      MapSet(@, dataSource.id, dataSource)],
                 [data |-> d3, threw |-> FALSE], templateData.dataSources, 1).data
      d5 == InsertTemplateStyles(d4, templateData)
  IN Fold(LAMBDA s, styleSourceSelection :
            [s EXCEPT !.data.styleSourceSelections =
               MapSet(@, styleSourceSelection.instanceId, styleSourceSelection)],
          [data |-> d5, threw |-> FALSE], templateData.styleSourceSelections, 1).data

\* the base breakpoint of a project
BaseBreakpoints(breakpoints) ==
  {k \in DOMAIN breakpoints :
     breakpoints[k].minWidth = undefined /\ breakpoints[k].maxWidth = undefined}

\* The data generated from the template of a component: a Box holding a
\* Text, with ids minted from firstId, a variable, a prop, a local style
\* source, and two tokens with persistent ids, 51 and 56, styled at the base
\* breakpoint.
TemplateData(firstId, baseBreakpointId) ==
  [children |-> <<IdChild(firstId)>>,
   instances |-> <<Instance(firstId, "Box", <<IdChild(firstId + 1)>>),
                   Instance(firstId + 1, "Text", <<TextChild("template")>>)>>,
   styleSourceSelections |->
     <<StyleSourceSelection(firstId, <<51, 56, firstId + 2>>)>>,
   styleSources |-> <<StyleSource(51, "token"), StyleSource(56, "token"),
                      StyleSource(firstId + 2, "local")>>,
   breakpoints |-> <<>>,
   styles |-> <<StyleDecl(51, baseBreakpointId, "color", Keyword("green")),
                StyleDecl(51, baseBreakpointId, "height", Keyword("auto")),
                StyleDecl(56, baseBreakpointId, "color", Keyword("green")),
                StyleDecl(firstId + 2, baseBreakpointId, "width", Keyword("auto"))>>,
   dataSources |-> <<Variable(firstId + 3, firstId, 8)>>,
   resources |-> <<>>,
   props |-> <<StringProp(firstId + 4, firstId + 1, "template")>>,
   assets |-> <<>>]

\* the number of ids the generation of TemplateData mints
TemplateIds(templateData) ==
  Len(templateData.instances) + Len(templateData.dataSources)
  + Len(templateData.props)
  + Cardinality({x \in Range(templateData.styleSources) : x.type = "local"})

----------------------------------------------------------------------------
(* reparentInstance.                                                       *)

\* no drop target: getReparentDropTargetMutable returned undefined
NoTarget == [none |-> TRUE]

\* the index of the id-child instanceId among children, counted from 0; -1
\* when there is none (Array.prototype.findIndex)
FindIndex(children, instanceId) ==
  LET at == {i \in DOMAIN children :
               children[i].type = "id" /\ children[i].value = instanceId}
  IN IF at = {} THEN -1 ELSE Min(at) - 1

\* tree-utils getReparentDropTargetMutable, for a plain drop target: none
\* when the target lies inside the moved subtree, when the previous or the
\* next parent is missing, or when the previous parent does not hold the
\* instance; the position is shifted by one when the instance leaves a place
\* before it under the same parent
getReparentDropTargetMutable(instances, instanceSelector, dropTarget) ==
  LET instanceId == instanceSelector[1]
      At(i) == IF i <= Len(instanceSelector) /\ Has(instances, instanceSelector[i])
                 THEN instanceSelector[i] ELSE undefined
      prevParentId ==
        IF At(3) # undefined /\ instances[At(3)].component = collectionComponent
          THEN At(3) ELSE At(2)
      nextParentId == dropTarget.parentSelector[1]
  IN IF Range(dropTarget.parentSelector) \cap findTreeInstanceIds(instances, instanceId) # {}
       THEN NoTarget
     ELSE IF prevParentId = undefined \/ ~Has(instances, nextParentId) THEN NoTarget
     ELSE LET prevPosition == FindIndex(instances[prevParentId].children, instanceId) IN
          IF prevPosition = -1 THEN NoTarget
          ELSE IF /\ dropTarget.position # End
                  /\ prevParentId = nextParentId
                  /\ prevPosition < dropTarget.position
            THEN DroppableTarget(dropTarget.parentSelector, dropTarget.position - 1)
          ELSE dropTarget

\* the end of the callback once insertWebstudioFragmentCopy returned r: the
\* copy of the root is linked under the new parent and selected, unless the
\* call minted no id for the root or the parent is missing
AttachCopy(r, rootInstanceId, reparentDropTarget) ==
  LET newParentId == reparentDropTarget.parentSelector[1]
      stopped == [data |-> r.data, nextId |-> r.nextId, threw |-> r.threw,
                  selected |-> <<>>]
  IN IF r.threw THEN stopped
     ELSE IF ~Has(r.newInstanceIds, rootInstanceId) THEN stopped
     ELSE IF ~Has(r.data.instances, newParentId) THEN stopped
     ELSE LET newChild == IdChild(r.newInstanceIds[rootInstanceId]) IN
          [data |-> [r.data EXCEPT !.instances[newParentId].children =
                       IF reparentDropTarget.position = End
                         THEN Append(@, newChild)
                         ELSE Splice(@, reparentDropTarget.position, <<newChild>>)],
           nextId |-> r.nextId, threw |-> FALSE,
           selected |-> <<r.newInstanceIds[rootInstanceId]>>
                          \o reparentDropTarget.parentSelector]

\* the callback reparentInstance gives to updateWebstudioData: the tables it
\* leaves, the next id, whether it threw, and the selector it selects (none
\* when it returns before).  Each step is computed once: the singleton sets
\* name the value of a step for the steps after it
reparentInstance(d, sourceInstanceSelector, dropTarget, projectId, firstId) ==
  LET rootInstanceId == sourceInstanceSelector[1] IN
  CHOOSE end \in
    {IF reparentDropTarget = NoTarget
       THEN [data |-> d, nextId |-> firstId, threw |-> FALSE, selected |-> <<>>]
       ELSE CHOOSE attached \in
              {AttachCopy(r, rootInstanceId, reparentDropTarget) :
                 r \in {insertWebstudioFragmentCopy(
                          deleted, fragment,
                          findAvailableDataSources(deleted.dataSources, deleted.instances,
                                                   reparentDropTarget.parentSelector),
                          projectId, firstId) :
                        deleted \in {deleteInstanceMutable(d, sourceInstanceSelector).data},
                        fragment \in {extractWebstudioFragment(d, rootInstanceId)}}} :
              TRUE :
     reparentDropTarget \in
       {getReparentDropTargetMutable(d.instances, sourceInstanceSelector, dropTarget)}} :
    TRUE

----------------------------------------------------------------------------
(* The drop target resolver.                                               *)

RECURSIVE DroppableWalk_NoReset(_, _, _, _, _)
\* the loop without the reset at an invalid ancestor: the component is
\* skipped and the walk goes on with what it had
DroppableWalk_NoReset(componentMetas, componentSelector, constraints, index, w) ==
  IF index >= Len(componentSelector) THEN w
  ELSE
    LET ancestorComponent == componentSelector[index + 1] IN
    IF ancestorComponent \in constraints.invalidAncestors
      THEN DroppableWalk_NoReset(componentMetas, componentSelector, constraints,
                                 index + 1, w)
    ELSE DroppableWalk_NoReset(
           componentMetas, componentSelector, constraints, index + 1,
           [containerIndex |->
              IF /\ w.containerIndex = -1
                 /\ Has(componentMetas, ancestorComponent)
                 /\ componentMetas[ancestorComponent].type = "container"
                THEN index ELSE w.containerIndex,
            requiredFound |->
              w.requiredFound \/ ancestorComponent \in constraints.requiredAncestors])

RECURSIVE DroppableWalk(_, _, _, _, _)
\* the loop of findClosestDroppableComponentIndex from index on (indexes
\* count from 0); w holds containerIndex and requiredFound
DroppableWalk(componentMetas, componentSelector, constraints, index, w) ==
  IF index >= Len(componentSelector) THEN w
  ELSE
    LET ancestorComponent == componentSelector[index + 1] IN
    IF ancestorComponent \in constraints.invalidAncestors
      THEN DroppableWalk(componentMetas, componentSelector, constraints, index + 1,
                         [containerIndex |-> -1, requiredFound |-> FALSE])
    ELSE DroppableWalk(
           componentMetas, componentSelector, constraints, index + 1,
           [containerIndex |->
              IF /\ w.containerIndex = -1
                 /\ Has(componentMetas, ancestorComponent)
                 /\ componentMetas[ancestorComponent].type = "container"
                THEN index ELSE w.containerIndex,
            requiredFound |->
              w.requiredFound \/ ancestorComponent \in constraints.requiredAncestors])

\* the index of the walk, whether a required ancestor was found or not
findClosestDroppableComponentIndex_IgnoreRequired(componentMetas, componentSelector, constraints) ==
  DroppableWalk(componentMetas, componentSelector, constraints, 0,
                [containerIndex |-> -1, requiredFound |-> FALSE]).containerIndex

findClosestDroppableComponentIndex(componentMetas, componentSelector, constraints) ==
  LET w == DroppableWalk(componentMetas, componentSelector, constraints, 0,
                         [containerIndex |-> -1, requiredFound |-> FALSE])
  IN IF w.requiredFound \/ constraints.requiredAncestors = {}
       THEN w.containerIndex
       ELSE -1

\* the drop target with the position of the child itself, not one past it
findClosestDroppableTarget_AtChild(componentMetas, instances, instanceSelector, insertConstraints) ==
  LET componentSelector ==
        [k \in DOMAIN instanceSelector |->
           IF Has(instances, instanceSelector[k])
             THEN instances[instanceSelector[k]].component ELSE "Fragment"]
      droppableIndex ==
        findClosestDroppableComponentIndex(componentMetas, componentSelector,
                                           insertConstraints)
  IN IF droppableIndex = -1 THEN NoTarget
     ELSE IF droppableIndex = 0 THEN DroppableTarget(instanceSelector, End)
     ELSE IF ~Has(instances, instanceSelector[droppableIndex + 1]) THEN NoTarget
     ELSE DroppableTarget(
            SubSeq(instanceSelector, droppableIndex + 1, Len(instanceSelector)),
            FindIndex(instances[instanceSelector[droppableIndex + 1]].children,
                      instanceSelector[droppableIndex]))

\* findClosestDroppableTarget: an instance the document lacks counts as a
\* Fragment; NoTarget stands for undefined
findClosestDroppableTarget(componentMetas, instances, instanceSelector, insertConstraints) ==
  LET componentSelector ==
        [k \in DOMAIN instanceSelector |->
           IF Has(instances, instanceSelector[k])
             THEN instances[instanceSelector[k]].component ELSE "Fragment"]
      droppableIndex ==
        findClosestDroppableComponentIndex(componentMetas, componentSelector,
                                           insertConstraints)
  IN IF droppableIndex = -1 THEN NoTarget
     ELSE IF droppableIndex = 0 THEN DroppableTarget(instanceSelector, End)
     ELSE IF ~Has(instances, instanceSelector[droppableIndex + 1]) THEN NoTarget
     ELSE DroppableTarget(
            SubSeq(instanceSelector, droppableIndex + 1, Len(instanceSelector)),
            FindIndex(instances[instanceSelector[droppableIndex + 1]].children,
                      instanceSelector[droppableIndex]) + 1)

----------------------------------------------------------------------------
(* The state machine.                                                      *)

NoOp == [name |-> "none"]

Init ==
  /\ data = EmptyData
  /\ project = NoProject
  /\ clipboard = NoFragment
  /\ op = NoOp
  /\ nextId = 100
  /\ loads = 0
  /\ extracts = 0
  /\ calls = 0
  /\ origin = NoFragment

\* a project is opened: its tables fill the stores
LoadProject(d, p) ==
  /\ loads < MaxLoads
  /\ data' = d
  /\ project' = p
  /\ op' = [name |-> "load"]
  /\ loads' = loads + 1
  /\ calls' = 0
  /\ UNCHANGED <<clipboard, nextId, extracts, origin>>

\* updateWebstudioData((data) => deleteInstanceMutable(data, instanceSelector))
Delete(instanceSelector) ==
  /\ calls < MaxCalls
  /\ LET r == deleteInstanceMutable(data, instanceSelector) IN
     /\ data' = r.data
     /\ op' = [name |-> "delete", instanceSelector |-> instanceSelector,
               result |-> r.result, toast |-> r.toast, pre |-> data]
  /\ calls' = calls + 1
  /\ UNCHANGED <<project, clipboard, nextId, loads, extracts, origin>>

\* the selected instance is copied: the fragment goes to the clipboard
Extract(rootInstanceId) ==
  /\ extracts < MaxExtracts
  /\ clipboard' = extractWebstudioFragment(data, rootInstanceId)
  /\ op' = [name |-> "extract", rootInstanceId |-> rootInstanceId, pre |-> data]
  /\ extracts' = extracts + 1
  /\ origin' = [data |-> data, rootInstanceId |-> rootInstanceId]
  /\ UNCHANGED <<data, project, nextId, loads, calls>>

\* the fragment of the clipboard is pasted; the caller passes the data
\* sources available at instanceSelector (none for the empty selector).  The
\* call runs in the transaction of updateWebstudioData: when it throws, the
\* stores keep the tables they had, and op.end tells how far the call went
Insert(instanceSelector) ==
  /\ calls < MaxCalls
  /\ clipboard # NoFragment
  /\ LET availableDataSources ==
           findAvailableDataSources(data.dataSources, data.instances, instanceSelector)
         r == insertWebstudioFragmentCopy(data, clipboard, availableDataSources,
                                          project, nextId)
     IN /\ data' = (IF r.threw THEN data ELSE r.data)
        /\ nextId' = r.nextId
        /\ op' = [name |-> "insert", fragment |-> clipboard,
                  availableDataSources |-> availableDataSources,
                  pre |-> data, end |-> r,
                  again |-> (op.name = "insert" /\ ~op.end.threw)]
  /\ calls' = calls + 1
  /\ UNCHANGED <<project, clipboard, loads, extracts, origin>>

\* $pages is undefined until a project is loaded: updateWebstudioData then
\* returns without calling the mutation
PagesUndefined == loads = 0

\* the template of a component is dropped at dropTarget: the mutation runs in
\* updateWebstudioData, then the root of the template is selected
InsertTemplate(dropTarget) ==
  /\ calls < MaxCalls
  /\ PagesUndefined \/ BaseBreakpoints(data.breakpoints) # {}
  /\ PlainTarget(data.instances, dropTarget)
  /\ LET templateData ==
           TemplateData(nextId,
                        IF BaseBreakpoints(data.breakpoints) = {} THEN undefined
                        ELSE Min(BaseBreakpoints(data.breakpoints)))
     IN /\ data' = (IF PagesUndefined THEN data
                    ELSE insertTemplateData(data, templateData, dropTarget))
        /\ op' = [name |-> "template", templateData |-> templateData,
                  dropTarget |-> dropTarget, pre |-> data,
                  pages |-> ~PagesUndefined,
                  selected |-> <<templateData.instances[1].id>>
                                 \o dropTarget.parentSelector]
  \* the ids of a template that was not written are in no table: they stay
  \* free
  /\ nextId' = (IF PagesUndefined THEN nextId
                ELSE nextId + TemplateIds(TemplateData(nextId, undefined)))
  /\ calls' = calls + 1
  /\ UNCHANGED <<project, clipboard, loads, extracts, origin>>

LoadAny == \E d \in Projects, p \in {ProjectId, NoProject} : LoadProject(d, p)

\* the selectors a caller may hold: those of the document, and those it had
\* before the last deletion (a selection that was not refreshed)
HeldSelectors ==
  InstanceSelectors(data.instances)
  \cup (IF op.name = "delete" THEN InstanceSelectors(op.pre.instances) ELSE {})

NextDelete ==
  \/ LoadAny
  \/ \E instanceSelector \in HeldSelectors : Delete(instanceSelector)

SpecDelete == Init /\ [][NextDelete]_vars

\* the projects between which fragments are copied
PasteProjects ==
  {SourceProject("box", free, FALSE) : free \in {"none", "code", "resource"}}
  \cup {SourceProject("portal", "none", FALSE), SourceProject("box", "code", TRUE),
        TargetProject, FreshProject, EmptyData}

Load == \E d \in PasteProjects, p \in {ProjectId, NoProject} : LoadProject(d, p)

Next ==
  \/ Load
  \/ \E rootInstanceId \in DOMAIN data.instances : Extract(rootInstanceId)
  \/ \E instanceSelector \in InstanceSelectors(data.instances) \cup {<<>>} :
       Insert(instanceSelector)

Spec == Init /\ [][Next]_vars

\* A document caught between two edits: a record is gone while what names it
\* is still there, or a code string is half typed.
\* kind: "instance" the Text 16 of the portal content, "styleSource" the
\*   local style source 52 of the Box, "breakpoint" the breakpoint 61 of a
\*   style declaration of the token, "resource" the
\*   resource 31, "code" the url and the body of resource 31 do not parse,
\*   "all" all of these but the missing resource, "none" nothing
Damaged(d, kind) ==
  LET is(k) == kind = k \/ (kind = "all" /\ k # "resource") IN
  [d EXCEPT
     !.instances = IF is("instance") THEN MapDelete(@, 16) ELSE @,
     !.styleSources = IF is("styleSource") THEN MapDelete(@, 52) ELSE @,
     !.breakpoints = IF is("breakpoint") THEN MapDelete(@, 61) ELSE @,
     !.resources =
       IF is("resource") THEN MapDelete(@, 31)
       ELSE IF is("code")
         THEN [@ EXCEPT ![31] =
                 [@ EXCEPT !.url = Malformed(@.toks),
                           !.body = MapSeq(@, LAMBDA code : Malformed(code.toks))]]
       ELSE @]

DamagedProjects ==
  {Damaged(SourceProject("box", free, FALSE), kind) :
     free \in {"none", "code", "resource"},
     kind \in {"none", "instance", "styleSource", "breakpoint", "resource",
               "code", "all"}}

LoadDamaged == \E d \in DamagedProjects : LoadProject(d, ProjectId)

\* an instance is copied out of a document that may be damaged; the selected
\* instance itself may be gone
NextExtract ==
  \/ LoadDamaged
  \/ \E rootInstanceId \in DOMAIN data.instances \cup {16} : Extract(rootInstanceId)

SpecExtract == Init /\ [][NextExtract]_vars

\* the projects into which templates are dropped
TemplateProjects ==
  {SourceProject("box", "none", FALSE), TargetProject, FreshProject}

LoadForTemplate == \E d \in TemplateProjects : LoadProject(d, ProjectId)

\* the parents a drop target may name: an instance of the document, or of
\* another document (a target that was not refreshed), at most one level
\* below the root
TemplateParentSelectors ==
  {x \in InstanceSelectors(data.instances)
          \cup InstanceSelectors(SourceProject("box", "none", FALSE).instances) :
     Len(x) <= 2}

\* components are dropped from the panel next to copying and pasting
NextTemplate ==
  \/ LoadForTemplate
  \/ \E rootInstanceId \in DOMAIN data.instances : Extract(rootInstanceId)
  \/ \E instanceSelector \in InstanceSelectors(data.instances) \cup {<<>>} :
       Insert(instanceSelector)
  \/ \E parentSelector \in TemplateParentSelectors, position \in {0, End} :
       InsertTemplate(DroppableTarget(parentSelector, position))

SpecTemplate == Init /\ [][NextTemplate]_vars

\* the projects in which instances are moved
ReparentProjects ==
  {SourceProject(shape, "none", FALSE) : shape \in Shapes}
  \cup {SourceProject("box", "code", FALSE)}

LoadForReparent ==
  \E d \in ReparentProjects, p \in {ProjectId, NoProject} : LoadProject(d, p)

\* an instance is dragged to dropTarget.  The callback runs in the
\* transaction of updateWebstudioData: when it throws, the stores keep the
\* tables they had
Reparent(sourceInstanceSelector, dropTarget) ==
  /\ calls < MaxReparents
  /\ PlainTarget(data.instances, dropTarget)
  /\ \E r \in {reparentInstance(data, sourceInstanceSelector, dropTarget,
                                 project, nextId)} :
        /\ data' = (IF r.threw THEN data ELSE r.data)
        /\ nextId' = r.nextId
        /\ op' = [name |-> "reparent",
                  sourceInstanceSelector |-> sourceInstanceSelector,
                  dropTarget |-> dropTarget, pre |-> data, end |-> r]
  /\ calls' = calls + 1
  /\ UNCHANGED <<project, clipboard, loads, extracts, origin>>

NextReparent ==
  \/ LoadForReparent
  \/ \E sourceInstanceSelector \in InstanceSelectors(data.instances),
        parentSelector \in InstanceSelectors(data.instances),
        position \in {0, 1, End} :
       Reparent(sourceInstanceSelector, DroppableTarget(parentSelector, position))

SpecReparent == Init /\ [][NextReparent]_vars

\* the components of the paths given to the resolver
DropComponents == {"Text", "Paragraph", "List", "Body"}

\* the metadata given to the resolver: the containers among the components;
\* Text has no meta in the last
DropMetas ==
  {[c \in DropComponents |->
      Meta(IF c \in containers THEN "container" ELSE "control", TRUE)] :
     containers \in {{"Body"}, {"Body", "List", "Paragraph"}}}
  \cup {[c \in DropComponents \ {"Text"} |-> Meta("container", TRUE)]}

\* findClosestDroppableComponentIndex(metas, componentSelector, constraints);
\* the function is pure: a behaviour makes one call
Droppable(componentMetas, componentSelector, constraints) ==
  /\ op = NoOp
  /\ op' = [name |-> "droppable", metas |-> componentMetas,
            componentSelector |-> componentSelector, constraints |-> constraints,
            result |-> findClosestDroppableComponentIndex(
                         componentMetas, componentSelector, constraints)]
  /\ UNCHANGED <<data, project, clipboard, nextId, loads, extracts, calls, origin>>

\* the documents in which drop targets are looked for
DropProjects ==
  {SourceProject("box", "none", FALSE), SourceProject("portal", "none", FALSE),
   TargetProject}

\* the selectors handed to findClosestDroppableTarget: the selectors of the
\* documents, each also tried in the other documents, and the same selectors
\* with the second element naming an instance no document has
DropSelectors ==
  LET held == UNION {InstanceSelectors(x.instances) : x \in DropProjects}
  IN held \cup {[s EXCEPT ![2] = 10] : s \in {t \in held : Len(t) >= 2}}

\* the metadata of the documents: the registered one, and one in which only
\* the Body is a container
DocumentMetas ==
  {metas,
   [c \in DOMAIN metas |-> Meta(IF c = "Body" THEN "container" ELSE "control", TRUE)]}

\* findClosestDroppableTarget(metas, instances, instanceSelector,
\* insertConstraints); the function is pure: a behaviour makes one call
DroppableTargetOf(componentMetas, instances, instanceSelector, insertConstraints) ==
  /\ op = NoOp
  /\ op' = [name |-> "target", metas |-> componentMetas, instances |-> instances,
            instanceSelector |-> instanceSelector, constraints |-> insertConstraints,
            result |-> findClosestDroppableTarget(componentMetas, instances,
                                                  instanceSelector, insertConstraints)]
  /\ UNCHANGED <<data, project, clipboard, nextId, loads, extracts, calls, origin>>

NextDrop ==
  \/ \E componentMetas \in DocumentMetas, d \in DropProjects,
        instanceSelector \in DropSelectors,
        requiredAncestors \in SUBSET {"Body"},
        invalidAncestors \in SUBSET {"Box"} :
       DroppableTargetOf(componentMetas, d.instances, instanceSelector,
                         [requiredAncestors |-> requiredAncestors,
                          invalidAncestors |-> invalidAncestors])
  \/ \E componentMetas \in DropMetas,
     componentSelector \in UNION {[1..n -> DropComponents] : n \in 1..MaxPathLen},
     requiredAncestors \in SUBSET {"List", "Body"},
     invalidAncestors \in SUBSET {"Paragraph"} :
    Droppable(componentMetas, componentSelector,
              [requiredAncestors |-> requiredAncestors,
               invalidAncestors |-> invalidAncestors])

SpecDrop == Init /\ [][NextDrop]_vars

ProjectsWellFormed == \A d \in Projects : WellFormed(d)

----------------------------------------------------------------------------
(* Claims about deleteInstanceMutable.                                     *)

RemovedStyleSources == DOMAIN op.pre.styleSources \ DOMAIN data.styleSources

\* no prop, data source or selection names an instance that is absent, and
\* no style declaration or selection names a style source that was removed
NoDanglingAfterDelete ==
  /\ \A k \in DOMAIN data.props :
       data.props[k].instanceId \in DOMAIN data.instances
  /\ \A k \in DOMAIN data.dataSources :
       data.dataSources[k].scopeInstanceId # undefined
         => data.dataSources[k].scopeInstanceId \in DOMAIN data.instances
  /\ \A k \in DOMAIN data.styleSourceSelections :
       /\ data.styleSourceSelections[k].instanceId \in DOMAIN data.instances
       /\ Range(data.styleSourceSelections[k].values) \cap RemovedStyleSources = {}
  /\ \A k \in DOMAIN data.styles :
       data.styles[k].styleSourceId \notin RemovedStyleSources

\* C1. Deletion safety: whenever deleteInstanceMutable returns true on a
\* document that satisfies the invariants of the data model, afterwards no
\* prop, data source or style source selection names an instance absent from
\* the instances, and no surviving style declaration or selection names a
\* style source that was removed.
C1_DeletionSafety ==
  (op.name = "delete" /\ op.result /\ WellFormed(op.pre)) => NoDanglingAfterDelete

\* a delete of a well-formed document that removed instances together with
\* props, data sources, a resource, selections, style sources and styles
C1_Witness ==
  /\ op.name = "delete" /\ op.result /\ WellFormed(op.pre)
  /\ DOMAIN data.instances # DOMAIN op.pre.instances
  /\ DOMAIN data.props # DOMAIN op.pre.props
  /\ DOMAIN data.dataSources # DOMAIN op.pre.dataSources
  /\ DOMAIN data.resources # DOMAIN op.pre.resources
  /\ DOMAIN data.styleSourceSelections # DOMAIN op.pre.styleSourceSelections
  /\ RemovedStyleSources # {}
  /\ DOMAIN data.styles # DOMAIN op.pre.styles

----------------------------------------------------------------------------
(* Claims about extractWebstudioFragment.                                  *)

Extracted == op.name = "extract"

FragmentInstanceIds(fragment) == {instance.id : instance \in Range(fragment.instances)}
FragmentDataSourceIdSet(fragment) == {dataSource.id : dataSource \in Range(fragment.dataSources)}

\* the data-source ids named by the identifiers of a code string; a string
\* that does not parse has no identifiers
Identifiers(code) == IF Throws(code) THEN {} ELSE DecodedIds(code)

IdentifiersOf(codes) == UNION {Identifiers(c) : c \in codes}

FragmentInstanceCodes(fragment) ==
  UNION {InstanceCodes(instance) : instance \in Range(fragment.instances)}
FragmentPropCodes(fragment) ==
  UNION {PropCodes(prop) : prop \in Range(fragment.props)}
FragmentResourceCodes(fragment) ==
  UNION {ResourceCodes(resource) : resource \in Range(fragment.resources)}

\* C2: every data-source identifier in an expression child, an expression
\* prop, an action prop or a resource (url, header, body) of the extracted
\* fragment names a data source of the fragment
C2_ClosureCompleteness ==
  Extracted =>
    IdentifiersOf(FragmentInstanceCodes(clipboard)
                  \cup FragmentPropCodes(clipboard)
                  \cup FragmentResourceCodes(clipboard))
      \subseteq FragmentDataSourceIdSet(clipboard)

\* a fragment whose resource names a variable that neither the instances nor
\* the props name and that is scoped outside the fragment, and whose action
\* prop and expression child name data sources too
C2_Witness ==
  /\ Extracted
  /\ \E id \in IdentifiersOf(FragmentResourceCodes(clipboard)) :
       /\ id \notin IdentifiersOf(FragmentInstanceCodes(clipboard)
                                  \cup FragmentPropCodes(clipboard))
       /\ \E dataSource \in Range(clipboard.dataSources) :
            /\ dataSource.id = id
            /\ dataSource.scopeInstanceId \notin FragmentInstanceIds(clipboard)
  /\ IdentifiersOf(FragmentInstanceCodes(clipboard)) # {}
  /\ \E prop \in Range(clipboard.props) :
       prop.type = "action" /\ IdentifiersOf(PropCodes(prop)) # {}

FragmentStyleSourceIdSet(fragment) ==
  {styleSource.id : styleSource \in Range(fragment.styleSources)}
FragmentBreakpointIdSet(fragment) ==
  {breakpoint.id : breakpoint \in Range(fragment.breakpoints)}
FragmentResourceIdSet(fragment) ==
  {resource.id : resource \in Range(fragment.resources)}
FragmentAssetIdSet(fragment) == {asset.id : asset \in Range(fragment.assets)}

\* the references of a fragment that are not scopes resolve inside it
ReferencesResolve(fragment) ==
  /\ \A instance \in Range(fragment.instances) :
       IdChildren(instance) \subseteq FragmentInstanceIds(fragment)
  /\ \A selection \in Range(fragment.styleSourceSelections) :
       Range(selection.values) \subseteq FragmentStyleSourceIdSet(fragment)
  /\ \A styleDecl \in Range(fragment.styles) :
       styleDecl.breakpointId \in FragmentBreakpointIdSet(fragment)
  /\ \A dataSource \in Range(fragment.dataSources) :
       dataSource.type = "resource"
         => dataSource.resourceId \in FragmentResourceIdSet(fragment)
  /\ \A prop \in Range(fragment.props) :
       prop.type = "asset" => prop.assetId \in FragmentAssetIdSet(fragment)

\* the data sources of a fragment that its code names
UsedByFragment(fragment) ==
  IdentifiersOf(FragmentInstanceCodes(fragment)
                \cup FragmentPropCodes(fragment)
                \cup FragmentResourceCodes(fragment))

ScopesResolve(fragment) ==
  \A dataSource \in Range(fragment.dataSources) :
    dataSource.scopeInstanceId # undefined
      => dataSource.scopeInstanceId \in FragmentInstanceIds(fragment)

\* C3: in a fragment extracted from a document whose references resolve,
\* every id child, selection value, breakpoint id of a style declaration,
\* resource id of a resource data source and asset id of an asset prop names
\* a record of the fragment, and the scope of a data source names a fragment
\* instance unless the code of the fragment names that data source
C3_SelfContainment ==
  (Extracted /\ WellFormed(op.pre)) =>
    /\ ReferencesResolve(clipboard)
    /\ \A dataSource \in Range(clipboard.dataSources) :
         dataSource.scopeInstanceId # undefined
           => \/ dataSource.scopeInstanceId \in FragmentInstanceIds(clipboard)
              \/ dataSource.id \in UsedByFragment(clipboard)

\* a fragment with id children, selections, style declarations, a resource
\* data source, an asset prop and a data source scoped outside of it
C3_Witness ==
  /\ Extracted
  /\ WellFormed(op.pre)
  /\ \E instance \in Range(clipboard.instances) : IdChildren(instance) # {}
  /\ clipboard.styleSourceSelections # <<>>
  /\ clipboard.styles # <<>>
  /\ \E dataSource \in Range(clipboard.dataSources) : dataSource.type = "resource"
  /\ \E prop \in Range(clipboard.props) : prop.type = "asset"
  /\ ~ScopesResolve(clipboard)

\* C3 as the specification states it: the scope of every data source of the
\* fragment names a fragment instance, too
C3_Original ==
  Extracted => (ReferencesResolve(clipboard) /\ ScopesResolve(clipboard))

----------------------------------------------------------------------------
(* Claims about insertWebstudioFragmentCopy.                               *)

\* the last call was insertWebstudioFragmentCopy in a loaded project and it
\* returned
Inserted == op.name = "insert" /\ project # NoProject /\ ~op.end.threw

\* C4: after insertWebstudioFragmentCopy every record written under a new id
\* refers to ids of the target: the id children of a new instance name
\* instances, and those of them that were copied carry their new ids; the
\* scope of a new data source names the new id of its instance and its
\* resource id a resource; the instance of a new prop and the data source of
\* a parameter prop exist; the selection of a new instance names the
\* instance and existing style sources; the style declarations of a new
\* local style source name an existing style source
C4_UniqueReferencesRewritten ==
  Inserted =>
    LET e == op.end
        fragmentInstances == FragmentInstancesMap(op.fragment)
        fragmentDataSources == FragmentDataSourcesMap(op.fragment)
    IN
    /\ \A old \in DOMAIN e.newInstanceIds :
         LET new == e.newInstanceIds[old] IN
         /\ new \in DOMAIN data.instances
         /\ IdChildren(data.instances[new]) \subseteq DOMAIN data.instances
         /\ IdChildren(data.instances[new]) =
              {GetOr(e.newInstanceIds, c, c) : c \in IdChildren(fragmentInstances[old])}
         /\ Has(data.styleSourceSelections, new) =>
              /\ data.styleSourceSelections[new].instanceId = new
              /\ Range(data.styleSourceSelections[new].values)
                   \subseteq DOMAIN data.styleSources
    /\ \A old \in DOMAIN e.newDataSourceIds :
         LET new == e.newDataSourceIds[old] IN
         /\ new \in DOMAIN data.dataSources
         /\ data.dataSources[new].scopeInstanceId \in DOMAIN data.instances
         /\ data.dataSources[new].scopeInstanceId =
              e.newInstanceIds[fragmentDataSources[old].scopeInstanceId]
         /\ data.dataSources[new].type = "resource" =>
              data.dataSources[new].resourceId \in DOMAIN data.resources
    /\ \A new \in Values(e.newPropIds) :
         /\ new \in DOMAIN data.props
         /\ data.props[new].instanceId \in DOMAIN data.instances
         /\ data.props[new].type = "parameter" =>
              data.props[new].dataSourceId \in DOMAIN data.dataSources
    /\ \A k \in DOMAIN data.styles :
         data.styles[k].styleSourceId \in Values(e.newLocalStyleSourceIds)
           => data.styles[k].styleSourceId \in DOMAIN data.styleSources

\* a copy into a project that holds none of the copied ids: instances with
\* id children, a resource data source, a parameter prop, a selection and a
\* local style source were written under new ids
C4_Witness ==
  /\ Inserted
  /\ DOMAIN op.end.newInstanceIds \cap DOMAIN op.pre.instances = {}
  /\ \E old \in DOMAIN op.end.newInstanceIds :
       /\ IdChildren(data.instances[op.end.newInstanceIds[old]])
            \cap Values(op.end.newInstanceIds) # {}
       /\ Has(data.styleSourceSelections, op.end.newInstanceIds[old])
  /\ \E new \in Values(op.end.newDataSourceIds) :
       data.dataSources[new].type = "resource"
  /\ \E new \in Values(op.end.newPropIds) : data.props[new].type = "parameter"
  /\ \E k \in DOMAIN data.styles :
       data.styles[k].styleSourceId \in Values(op.end.newLocalStyleSourceIds)

\* the code with every data-source identifier renamed through the map
Renamed(code, ids) ==
  [code EXCEPT !.toks =
     [i \in DOMAIN code.toks |->
        LET tok == code.toks[i]
            id == IF tok.text.kind = "ident"
                    THEN decodeDataSourceVariable(tok.text) ELSE undefined
        IN IF id = undefined THEN tok
           ELSE Token(encodeDataSourceVariable(GetOr(ids, id, id)), tok.assignee)]]

\* child is orig up to the renaming of instances and data sources
SameChild(child, orig, instanceIds, dataSourceIds) ==
  /\ child.type = orig.type
  /\ CASE orig.type = "id" ->
            child.value = GetOr(instanceIds, orig.value, orig.value)
       [] orig.type = "expression" -> child.code = Renamed(orig.code, dataSourceIds)
       [] OTHER -> child = orig

\* prop is orig up to the renaming of its id, instance and data sources
SameProp(prop, orig, e) ==
  /\ prop.type = orig.type
  /\ prop.instanceId = GetOr(e.newInstanceIds, orig.instanceId, orig.instanceId)
  /\ CASE orig.type = "expression" ->
            prop.code = Renamed(orig.code, e.newDataSourceIds)
       [] orig.type = "action" ->
            /\ Len(prop.steps) = Len(orig.steps)
            /\ \A i \in DOMAIN orig.steps :
                 prop.steps[i].code = Renamed(orig.steps[i].code, e.newDataSourceIds)
       [] orig.type = "parameter" ->
            prop.dataSourceId = GetOr(e.newDataSourceIds, orig.dataSourceId,
                                      orig.dataSourceId)
       [] orig.type = "asset" -> prop.assetId = orig.assetId
       [] OTHER -> prop.text = orig.text

\* the instances of the target are the closure of the instance in doc up to
\* the renaming the call made: components, children in order, props, data
\* sources with their resources, and styles
Isomorphic(doc, rootInstanceId, target, e) ==
  LET closure == findTreeInstanceIds(doc.instances, rootInstanceId)
      I(id) == GetOr(e.newInstanceIds, id, id)
      D(id) == GetOr(e.newDataSourceIds, id, id)
      S(id) == GetOr(e.newLocalStyleSourceIds, id, id)
      closureProps == {k \in DOMAIN doc.props : doc.props[k].instanceId \in closure}
      closureStyleSources ==
        UNION {Range(doc.styleSourceSelections[i].values) :
                 i \in closure \cap DOMAIN doc.styleSourceSelections}
  IN
  /\ DOMAIN target.instances = {I(i) : i \in closure}
  /\ \A i, j \in closure : I(i) = I(j) => i = j
  /\ \A i \in closure :
       LET instance == target.instances[I(i)]
           orig == doc.instances[i]
       IN /\ instance.component = orig.component
          /\ Len(instance.children) = Len(orig.children)
          /\ \A n \in DOMAIN orig.children :
               SameChild(instance.children[n], orig.children[n],
                         e.newInstanceIds, e.newDataSourceIds)
  /\ Cardinality(DOMAIN target.props) = Cardinality(closureProps)
  /\ \A k \in closureProps :
       LET new == GetOr(e.newPropIds, k, k) IN
       /\ new \in DOMAIN target.props
       /\ SameProp(target.props[new], doc.props[k], e)
  /\ \A k \in DOMAIN doc.dataSources :
       doc.dataSources[k].scopeInstanceId \in closure =>
         /\ D(k) \in DOMAIN target.dataSources
         /\ target.dataSources[D(k)].type = doc.dataSources[k].type
         /\ target.dataSources[D(k)].scopeInstanceId =
              I(doc.dataSources[k].scopeInstanceId)
         /\ doc.dataSources[k].type = "variable" =>
              target.dataSources[D(k)].value = doc.dataSources[k].value
         /\ doc.dataSources[k].type = "resource" =>
              LET resource == target.resources[target.dataSources[D(k)].resourceId]
                  orig == doc.resources[doc.dataSources[k].resourceId]
              IN /\ resource.url = Renamed(orig.url, e.newDataSourceIds)
                 /\ resource.body =
                      MapSeq(orig.body, LAMBDA c : Renamed(c, e.newDataSourceIds))
                 /\ resource.headers =
                      MapSeq(orig.headers, LAMBDA h :
                        Header(h.name, Renamed(h.value, e.newDataSourceIds)))
  /\ \A i \in closure :
       IF Has(doc.styleSourceSelections, i)
         THEN /\ Has(target.styleSourceSelections, I(i))
              /\ target.styleSourceSelections[I(i)].values =
                   MapSeq(doc.styleSourceSelections[i].values, S)
         ELSE ~Has(target.styleSourceSelections, I(i))
  /\ \A k \in DOMAIN doc.styles :
       doc.styles[k].styleSourceId \in closureStyleSources =>
         LET new == <<S(k[1]), k[2], k[3]>> IN
         /\ new \in DOMAIN target.styles
         /\ target.styles[new].value = doc.styles[k].value
         /\ target.breakpoints[k[2]] = doc.breakpoints[k[2]]

\* the fragment of the clipboard was pasted into an empty document
RoundTrip ==
  /\ Inserted
  /\ op.pre = EmptyData
  /\ WellFormed(origin.data)

\* the instances of each part of the closure (the instances outside portal
\* content, and each portal-content subtree) name in their expression
\* children, props and resources only data sources scoped to that part
ScopedToItsPart(doc, rootInstanceId) ==
  LET closure == findTreeInstanceIds(doc.instances, rootInstanceId)
      roots == {rootInstanceId} \cup
               UNION {IdChildren(doc.instances[i]) :
                        i \in {j \in closure :
                                 doc.instances[j].component = portalComponent}}
      Part(r) == findTreeInstanceIdsExcludingSlotDescendants(doc.instances, r)
      scopedTo(part) ==
        {k \in DOMAIN doc.dataSources : doc.dataSources[k].scopeInstanceId \in part}
      codes(part) ==
        UNION {InstanceCodes(doc.instances[i]) : i \in part}
        \cup UNION {PropCodes(doc.props[k]) :
                      k \in {q \in DOMAIN doc.props : doc.props[q].instanceId \in part}}
        \cup UNION {ResourceCodes(doc.resources[doc.dataSources[k].resourceId]) :
                      k \in {q \in scopedTo(part) : doc.dataSources[q].type = "resource"}}
  IN \A r \in roots :
       UNION {DecodedIds(c) : c \in codes(Part(r))} \subseteq scopedTo(Part(r))

\* C5: pasting the fragment extracted at an instance of a well-formed
\* document into an empty document of a loaded project gives instances
\* isomorphic to the closure of that instance (components, child order,
\* style, prop and variable bindings up to renaming of ids), when the code
\* of each part of the closure names only data sources scoped to that part
C5_RoundTrip ==
  (RoundTrip /\ ScopedToItsPart(origin.data, origin.rootInstanceId)) =>
    Isomorphic(origin.data, origin.rootInstanceId, data, op.end)

\* a round trip of a closure with a Portal, expressions, a resource, an
\* action prop and local and token styles
C5_Witness ==
  /\ RoundTrip
  /\ ScopedToItsPart(origin.data, origin.rootInstanceId)
  /\ \E i \in DOMAIN data.instances : data.instances[i].component = portalComponent
  /\ \E i \in DOMAIN data.instances : InstanceCodes(data.instances[i]) # {}
  /\ data.resources # EmptyMap
  /\ \E k \in DOMAIN data.props : data.props[k].type = "action"
  /\ \E k \in DOMAIN data.styleSources : data.styleSources[k].type = "token"
  /\ op.end.newLocalStyleSourceIds # EmptyMap

\* C5 as the specification states it: for any instance of a well-formed
\* document
C5_Original ==
  RoundTrip => Isomorphic(origin.data, origin.rootInstanceId, data, op.end)

\* the rows of a table that satisfy Belongs are the same before and after
SameRows(before, after, Belongs(_)) ==
  /\ {k \in DOMAIN before : Belongs(before[k])} = {k \in DOMAIN after : Belongs(after[k])}
  /\ \A k \in DOMAIN before : Belongs(before[k]) => after[k] = before[k]

\* the instances of the portal-content subtrees of a fragment
PortalRoots(fragment) ==
  UNION {IdChildren(instance) :
           instance \in {i \in Range(fragment.instances) :
                           i.component = portalComponent}}

\* the instances of the portal-content subtree of a fragment rooted at r
PortalSubtree(fragment, r) ==
  findTreeInstanceIdsExcludingSlotDescendants(FragmentInstancesMap(fragment), r)

PortalContentInstanceIds(fragment) ==
  UNION {PortalSubtree(fragment, r) : r \in PortalRoots(fragment)}

\* the second of two calls with the same fragment
InsertedAgain == Inserted /\ op.again

\* C6: a second insertWebstudioFragmentCopy with the same fragment, on the
\* state the first left, adds, changes and removes no asset, no breakpoint,
\* no token style source, no style declaration of a token, and no instance,
\* data source, resource, prop, selection, local style source or style
\* declaration of a portal-content subtree
C6_Idempotence ==
  InsertedAgain =>
    LET P == PortalContentInstanceIds(op.fragment)
        Tokens(d) == {k \in DOMAIN d.styleSources : d.styleSources[k].type = "token"}
        PortalDataSources(d) ==
          {k \in DOMAIN d.dataSources : d.dataSources[k].scopeInstanceId \in P}
        PortalResources(d) ==
          {d.dataSources[k].resourceId :
             k \in {q \in PortalDataSources(d) : d.dataSources[q].type = "resource"}}
        PortalLocals(d) ==
          {s \in UNION {Range(d.styleSourceSelections[i].values) :
                          i \in P \cap DOMAIN d.styleSourceSelections} :
             s \in DOMAIN d.styleSources /\ d.styleSources[s].type = "local"}
        both == Tokens(op.pre) \cup Tokens(data)
                \cup PortalLocals(op.pre) \cup PortalLocals(data)
    IN
    /\ data.assets = op.pre.assets
    /\ data.breakpoints = op.pre.breakpoints
    /\ SameRows(op.pre.styleSources, data.styleSources,
                LAMBDA styleSource : styleSource.id \in both)
    /\ SameRows(op.pre.styles, data.styles,
                LAMBDA styleDecl : styleDecl.styleSourceId \in both)
    /\ SameRows(op.pre.instances, data.instances, LAMBDA instance : instance.id \in P)
    /\ SameRows(op.pre.dataSources, data.dataSources,
                LAMBDA dataSource : dataSource.scopeInstanceId \in P)
    /\ SameRows(op.pre.resources, data.resources,
                LAMBDA resource :
                  resource.id \in PortalResources(op.pre) \cup PortalResources(data))
    /\ SameRows(op.pre.props, data.props, LAMBDA prop : prop.instanceId \in P)
    /\ SameRows(op.pre.styleSourceSelections, data.styleSourceSelections,
                LAMBDA selection : selection.instanceId \in P)

\* a second call whose first call inserted assets, a breakpoint, a token
\* with its styles and a portal-content subtree with data sources, props
\* and local styles
C6_Witness ==
  /\ InsertedAgain
  /\ op.fragment.assets # <<>>
  /\ \E breakpoint \in Range(op.fragment.breakpoints) :
       /\ breakpoint.id \in DOMAIN data.breakpoints
       /\ data.breakpoints[breakpoint.id] = breakpoint
  /\ \E styleSource \in Range(op.fragment.styleSources) : styleSource.type = "token"
  /\ PortalContentInstanceIds(op.fragment) # {}
  /\ \E k \in DOMAIN data.dataSources :
       data.dataSources[k].scopeInstanceId \in PortalContentInstanceIds(op.fragment)
  /\ \E k \in DOMAIN data.props :
       data.props[k].instanceId \in PortalContentInstanceIds(op.fragment)
  /\ op.end.newInstanceIds # EmptyMap

\* the breakpoints of a table whose media equal those of breakpoint
SameMedia(breakpoints, breakpoint) ==
  {k \in DOMAIN breakpoints : equalMedia(breakpoints[k], breakpoint)}

\* the ids a style declaration of the fragment at breakpointId may carry once
\* written: those of the target breakpoints with equal media, or its own
MergedInto(fragment, breakpoints, breakpointId) ==
  LET found == {b \in Range(fragment.breakpoints) : b.id = breakpointId}
      existing == UNION {SameMedia(breakpoints, b) : b \in found}
  IN IF existing # {} THEN existing ELSE {breakpointId}

\* the style declarations the call wrote: the keys that are new or changed
WrittenStyles ==
  {k \in DOMAIN data.styles :
     k \notin DOMAIN op.pre.styles \/ data.styles[k] # op.pre.styles[k]}

MediaUnique(breakpoints) ==
  \A a, b \in DOMAIN breakpoints : equalMedia(breakpoints[a], breakpoints[b]) => a = b

\* C7: a fragment breakpoint whose media equal those of a breakpoint of the
\* target is not inserted, and the style declarations written for it carry
\* the id of that breakpoint; any other fragment breakpoint is inserted
\* under its own id; every style declaration written names a breakpoint of
\* the target; the media of the target stay unique, so that a second insert
\* leaves one row for each media of the fragment
C7_BreakpointMerge ==
  Inserted =>
    /\ \A b \in Range(op.fragment.breakpoints) :
         IF SameMedia(op.pre.breakpoints, b) # {}
           THEN /\ Has(data.breakpoints, b.id) <=> Has(op.pre.breakpoints, b.id)
                /\ Has(op.pre.breakpoints, b.id) =>
                     data.breakpoints[b.id] = op.pre.breakpoints[b.id]
           ELSE /\ Has(data.breakpoints, b.id)
                /\ data.breakpoints[b.id] = b
    /\ \A k \in WrittenStyles :
         /\ data.styles[k].breakpointId \in DOMAIN data.breakpoints
         /\ \E f \in Range(op.fragment.styles) :
              /\ data.styles[k].property = f.property
              /\ data.styles[k].value = f.value
              /\ data.styles[k].styleSourceId
                   \in {f.styleSourceId} \cup
                       {op.end.newLocalStyleSourceIds[s] :
                          s \in {f.styleSourceId} \cap DOMAIN op.end.newLocalStyleSourceIds}
              /\ data.styles[k].breakpointId
                   \in MergedInto(op.fragment, op.pre.breakpoints, f.breakpointId)
    /\ MediaUnique(op.pre.breakpoints) => MediaUnique(data.breakpoints)
    /\ op.again =>
         \A b \in Range(op.fragment.breakpoints) :
           Cardinality(SameMedia(data.breakpoints, b)) = 1

\* a call that merged a fragment breakpoint into a breakpoint with another
\* id, wrote a style declaration under that id, and inserted another
\* fragment breakpoint
C7_Witness ==
  /\ Inserted
  /\ \E b \in Range(op.fragment.breakpoints) :
       /\ SameMedia(op.pre.breakpoints, b) # {}
       /\ b.id \notin SameMedia(op.pre.breakpoints, b)
       /\ b.minWidth = 768
       /\ \E k \in WrittenStyles :
            /\ data.styles[k].breakpointId \in SameMedia(op.pre.breakpoints, b)
            /\ \E f \in Range(op.fragment.styles) :
                 f.breakpointId = b.id /\ f.property = data.styles[k].property
  /\ \E b \in Range(op.fragment.breakpoints) : SameMedia(op.pre.breakpoints, b) = {}

----------------------------------------------------------------------------
(* Claims about the policies of insertWebstudioFragmentCopy and            *)
(* insertTemplateData.                                                     *)

\* a call of insertTemplateData whose mutation ran
Templated == op.name = "template" /\ op.pages

\* the fragment the last call inserted
InsertedFragment == IF Templated THEN op.templateData ELSE op.fragment

TokenIds(styleSources) ==
  {k \in DOMAIN styleSources : styleSources[k].type = "token"}

\* C8: insertWebstudioFragmentCopy and insertTemplateData insert a token of
\* the fragment under its id only when the target holds no style source
\* with that id, insert no other token, write a style declaration of a
\* token only when the call inserted that token, and leave the style
\* declarations of the tokens the target held as they were
C8_TokenPolicy ==
  (Inserted \/ Templated) =>
    /\ \A t \in {x \in Range(InsertedFragment.styleSources) : x.type = "token"} :
         /\ Has(data.styleSources, t.id)
         /\ data.styleSources[t.id] =
              IF Has(op.pre.styleSources, t.id) THEN op.pre.styleSources[t.id] ELSE t
    /\ TokenIds(data.styleSources) \ DOMAIN op.pre.styleSources
         \subseteq {t.id : t \in Range(InsertedFragment.styleSources)}
    /\ \A k \in WrittenStyles :
         data.styles[k].styleSourceId \in TokenIds(data.styleSources)
           => data.styles[k].styleSourceId \notin DOMAIN op.pre.styleSources
    /\ SameRows(op.pre.styles, data.styles,
                LAMBDA styleDecl :
                  styleDecl.styleSourceId \in TokenIds(op.pre.styleSources))

\* a template dropped after a paste into a project that holds token 51 with
\* styles of its own: the template's token 51 is skipped, its token 56 is
\* inserted with its styles
C8_Witness ==
  /\ Templated
  /\ \E i \in DOMAIN op.pre.instances :
       i >= 100 /\ op.pre.instances[i].component = portalComponent
  /\ \E t \in Range(op.templateData.styleSources) :
       /\ t.type = "token"
       /\ Has(op.pre.styleSources, t.id)
       /\ \E f \in Range(op.templateData.styles) :
            /\ f.styleSourceId = t.id
            /\ getStyleDeclKey(f) \in DOMAIN op.pre.styles
            /\ op.pre.styles[getStyleDeclKey(f)] # f
  /\ \E t \in Range(op.templateData.styleSources) :
       /\ t.type = "token"
       /\ ~Has(op.pre.styleSources, t.id)
       /\ \E k \in WrittenStyles : data.styles[k].styleSourceId = t.id

\* the records of the fragment that belong to a set of its instances
DataSourcesOf(fragment, instanceIds) ==
  {dataSource \in Range(fragment.dataSources) :
     dataSource.scopeInstanceId \in instanceIds}
ResourcesOf(fragment, instanceIds) ==
  {resource \in Range(fragment.resources) :
     \E dataSource \in DataSourcesOf(fragment, instanceIds) :
       dataSource.type = "resource" /\ dataSource.resourceId = resource.id}
PropsOf(fragment, instanceIds) ==
  {prop \in Range(fragment.props) : prop.instanceId \in instanceIds}
SelectionsOf(fragment, instanceIds) ==
  {selection \in Range(fragment.styleSourceSelections) :
     selection.instanceId \in instanceIds}
LocalStyleSourcesOf(fragment, instanceIds) ==
  {styleSource \in Range(fragment.styleSources) :
     /\ styleSource.type = "local"
     /\ \E selection \in SelectionsOf(fragment, instanceIds) :
          styleSource.id \in Range(selection.values)}
StylesOf(fragment, instanceIds) ==
  {styleDecl \in Range(fragment.styles) :
     \E styleSource \in LocalStyleSourcesOf(fragment, instanceIds) :
       styleDecl.styleSourceId = styleSource.id}

\* the row of a table under key is what it was before the call
Untouched(before, after, key) ==
  /\ Has(after, key) <=> Has(before, key)
  /\ Has(before, key) => after[key] = before[key]

\* C9: for every id child r of a Portal of the fragment, when the target
\* held an instance r the call wrote no instance, data source, resource,
\* prop, selection, local style source or style declaration of the
\* portal-content subtree of r; otherwise it wrote each of them under its
\* original id
C9_PortalContentPolicy ==
  Inserted =>
    \A r \in PortalRoots(op.fragment) :
      LET F == op.fragment
          sub == PortalSubtree(F, r)
      IN IF Has(op.pre.instances, r)
           THEN
             /\ \A i \in sub : Untouched(op.pre.instances, data.instances, i)
             /\ \A x \in DataSourcesOf(F, sub) :
                  Untouched(op.pre.dataSources, data.dataSources, x.id)
             /\ \A x \in ResourcesOf(F, sub) :
                  Untouched(op.pre.resources, data.resources, x.id)
             /\ \A x \in PropsOf(F, sub) : Untouched(op.pre.props, data.props, x.id)
             /\ \A x \in SelectionsOf(F, sub) :
                  Untouched(op.pre.styleSourceSelections,
                            data.styleSourceSelections, x.instanceId)
             /\ \A x \in LocalStyleSourcesOf(F, sub) :
                  /\ Untouched(op.pre.styleSources, data.styleSources, x.id)
                  /\ SameRows(op.pre.styles, data.styles,
                              LAMBDA styleDecl : styleDecl.styleSourceId = x.id)
           ELSE
             /\ \A x \in {i \in Range(F.instances) : i.id \in sub} :
                  /\ Has(data.instances, x.id)
                  /\ data.instances[x.id].component = x.component
                  /\ IdChildren(data.instances[x.id]) = IdChildren(x)
                  /\ Len(data.instances[x.id].children) = Len(x.children)
             /\ \A x \in DataSourcesOf(F, sub) :
                  Has(data.dataSources, x.id) /\ data.dataSources[x.id] = x
             /\ \A x \in ResourcesOf(F, sub) : Has(data.resources, x.id)
             /\ \A x \in PropsOf(F, sub) :
                  /\ Has(data.props, x.id)
                  /\ data.props[x.id].instanceId = x.instanceId
                  /\ data.props[x.id].type = x.type
             /\ \A x \in SelectionsOf(F, sub) :
                  /\ Has(data.styleSourceSelections, x.instanceId)
                  /\ data.styleSourceSelections[x.instanceId] = x
             /\ \A x \in LocalStyleSourcesOf(F, sub) :
                  Has(data.styleSources, x.id) /\ data.styleSources[x.id] = x
             /\ \A x \in StylesOf(F, sub) :
                  \E k \in DOMAIN data.styles :
                    /\ k[1] = x.styleSourceId
                    /\ k[3] = x.property
                    /\ data.styles[k].value = x.value
                    /\ data.styles[k].breakpointId
                         \in MergedInto(F, op.pre.breakpoints, x.breakpointId)

\* a call whose fragment holds a Portal over a subtree with a data source, a
\* prop, a selection and a styled local style source, pasted where the root
\* of the subtree exists with other content
C9_Witness ==
  /\ Inserted
  /\ \E r \in PortalRoots(op.fragment) :
       LET sub == PortalSubtree(op.fragment, r) IN
       /\ Has(op.pre.instances, r)
       /\ \E x \in Range(op.fragment.instances) :
            x.id = r /\ op.pre.instances[r] # x
       /\ DataSourcesOf(op.fragment, sub) # {}
       /\ PropsOf(op.fragment, sub) # {}
       /\ StylesOf(op.fragment, sub) # {}

\* C10: a fragment asset is inserted under its id, with the id of the loaded
\* project, only when the target holds no asset with that id; the assets of
\* the target stay as they were and no other asset appears
C10_AssetPolicy ==
  Inserted =>
    /\ \A a \in Range(op.fragment.assets) :
         /\ Has(data.assets, a.id)
         /\ data.assets[a.id] =
              IF Has(op.pre.assets, a.id) THEN op.pre.assets[a.id]
              ELSE [a EXCEPT !.projectId = project]
    /\ \A k \in DOMAIN op.pre.assets :
         Has(data.assets, k) /\ data.assets[k] = op.pre.assets[k]
    /\ DOMAIN data.assets \subseteq
         DOMAIN op.pre.assets \cup {a.id : a \in Range(op.fragment.assets)}

\* a call whose fragment holds an asset the target has with other content
\* and an asset the target lacks
C10_Witness ==
  /\ Inserted
  /\ \E a \in Range(op.fragment.assets) :
       Has(op.pre.assets, a.id) /\ op.pre.assets[a.id] # a
  /\ \E a \in Range(op.fragment.assets) : ~Has(op.pre.assets, a.id)

----------------------------------------------------------------------------
(* The rewriters as operations of their own: inlineUnavailableDataSources  *)
(* and replaceDataSources applied to every code string of at most          *)
(* MaxCodeLen tokens.  The two are pure: a behaviour makes one call.       *)

\* the tokens of the code strings: reads and assignments of three data
\* sources, an identifier that names no data source, read and assigned, and
\* a literal
RewriterTokens ==
  {Read(21), Assign(21), Read(22), Assign(22), Read(23), Assign(23),
   Plain, Token(PlainIdentifier(1), TRUE), One}

RewriterCodes ==
  UNION {{[ok |-> ok, toks |-> toks] : ok \in BOOLEAN, toks \in [1..n -> RewriterTokens]} :
           n \in 1..MaxCodeLen}

\* the data sources of the fragment: 23 is in neither map
RewriterDataSources ==
  {ById({Variable(21, 11, 8), Parameter(22, 11)}),
   ById({ResourceDataSource(21, 11, 31), Variable(22, 11, 9)})}

\* the id maps given to replaceDataSources
RewriterReplacements ==
  UNION {[keys -> {100, 101}] : keys \in SUBSET {21, 22}}

\* inlineUnavailableDataSources({code, availableDataSources, dataSources})
Inline(code, availableDataSources, dataSources) ==
  /\ op = NoOp
  /\ op' = [name |-> "inline", code |-> code,
            availableDataSources |-> availableDataSources,
            dataSources |-> dataSources,
            threw |-> Throws(code),
            result |-> inlineUnavailableDataSources(code, availableDataSources,
                                                    dataSources)]
  /\ UNCHANGED <<data, project, clipboard, nextId, loads, extracts, calls, origin>>

\* replaceDataSources(code, replacements)
Replace(code, replacements) ==
  /\ op = NoOp
  /\ op' = [name |-> "replace", code |-> code, replacements |-> replacements,
            threw |-> Throws(code),
            result |-> replaceDataSources(code, replacements)]
  /\ UNCHANGED <<data, project, clipboard, nextId, loads, extracts, calls, origin>>

NextRewriters ==
  \/ \E code \in RewriterCodes, availableDataSources \in SUBSET {21, 22, 23},
        dataSources \in RewriterDataSources :
       Inline(code, availableDataSources, dataSources)
  \/ \E code \in RewriterCodes, replacements \in RewriterReplacements :
       Replace(code, replacements)

SpecRewriters == Init /\ [][NextRewriters]_vars

----------------------------------------------------------------------------
(* Claims about the rewriters.                                             *)

\* the code strings of a fragment
FragmentCodes(fragment) ==
  UNION {InstanceCodes(i) : i \in Range(fragment.instances)}
  \cup UNION {PropCodes(p) : p \in Range(fragment.props)}
  \cup UNION {ResourceCodes(r) : r \in Range(fragment.resources)}

\* C11: the rewriters do not throw on a code string that does not parse, so
\* a paste of a fragment that holds such a code string ends without an
\* exception
C11_RewritersTotal ==
  (/\ op.name = "insert"
   /\ project # NoProject
   /\ \E code \in FragmentCodes(op.fragment) : Throws(code))
  => ~op.end.threw


\* a call of inlineUnavailableDataSources that returned
Inlined == op.name = "inline" /\ ~op.threw

\* the token the inlining leaves in the place of a token of the code
InlinedToken(tok, availableDataSources, dataSources) ==
  IF tok.text.kind # "ident" THEN tok
  ELSE LET id == decodeDataSourceVariable(tok.text) IN
       IF id = undefined \/ id \in availableDataSources THEN tok
       ELSE IF id \in DOMAIN dataSources /\ dataSources[id].type = "variable"
         THEN [tok EXCEPT !.text = Literal(JSONstringify(dataSources[id].value.value))]
       ELSE [tok EXCEPT !.text = Literal("{}")]

\* C12: inlineUnavailableDataSources leaves an identifier that names no data
\* source or an available one as it is and replaces every other identifier
\* by a literal: the serialized value of a variable, else {}; a variable of
\* value 8 that is not available, inlined into `$ws$dataSource$21 + 1`,
\* gives `8 + 1`
C12_InlineUnavailable ==
  Inlined =>
    /\ DOMAIN op.result.code.toks = DOMAIN op.code.toks
    /\ \A i \in DOMAIN op.code.toks :
         op.result.code.toks[i] =
           InlinedToken(op.code.toks[i], op.availableDataSources, op.dataSources)
    /\ (/\ op.code = Code(<<Read(21), One>>)
        /\ 21 \notin op.availableDataSources
        /\ op.dataSources[21] = Variable(21, 11, 8))
       => op.result.code = Code(<<Token(Literal("8"), FALSE), One>>)

\* the call of the example: the variable of value 8 is not available, the
\* other data source is
C12_Witness ==
  /\ Inlined
  /\ op.code = Code(<<Read(21), One>>)
  /\ op.availableDataSources = {22}
  /\ op.dataSources[21] = Variable(21, 11, 8)
  /\ op.result.code = Code(<<Token(Literal("8"), FALSE), One>>)

\* C13: inlineUnavailableDataSources returns isDiscarded = true exactly when
\* an identifier of a data source that is not available stands on the left
\* of an assignment
C13_Discarded ==
  Inlined =>
    (op.result.isDiscarded <=>
       \E i \in DOMAIN op.code.toks :
         /\ op.code.toks[i].assignee
         /\ op.code.toks[i].text.kind = "ident"
         /\ decodeDataSourceVariable(op.code.toks[i].text) # undefined
         /\ decodeDataSourceVariable(op.code.toks[i].text) \notin op.availableDataSources)

\* a call that assigns an available data source and reads one that is not:
\* nothing is discarded
C13_Witness ==
  /\ Inlined
  /\ op.code = Code(<<Assign(21), Read(22)>>)
  /\ op.availableDataSources = {21}
  /\ ~op.result.isDiscarded

\* a call of replaceDataSources that returned
Replaced == op.name = "replace" /\ ~op.threw

\* C14: replaceDataSources rewrites an identifier whose decoded id is a key
\* of the map to the encoding of the mapped id and leaves every other token
\* as it is; with an empty map it returns the code it was given
C14_ReplaceDataSources ==
  Replaced =>
    /\ DOMAIN op.result.toks = DOMAIN op.code.toks
    /\ \A i \in DOMAIN op.code.toks :
         LET tok == op.code.toks[i]
             id == IF tok.text.kind = "ident"
                     THEN decodeDataSourceVariable(tok.text) ELSE undefined
         IN op.result.toks[i] =
              IF id # undefined /\ id \in DOMAIN op.replacements
                THEN [tok EXCEPT !.text = encodeDataSourceVariable(op.replacements[id])]
                ELSE tok
    /\ DOMAIN op.replacements = {} => op.result = op.code

\* a call whose code names a key of the map and an identifier that is no
\* data source
C14_Witness ==
  /\ Replaced
  /\ op.code = Code(<<Read(21), Plain>>)
  /\ DOMAIN op.replacements = {21}
  /\ op.result.toks[1] = Read(op.replacements[21])

----------------------------------------------------------------------------
(* Claims about what deleteInstanceMutable rejects and what it keeps.      *)

Deleted == op.name = "delete"

\* the head of the selector is an instance of a component whose meta says
\* detachable: false
MarkedNonDetachable(instances, instanceSelector) ==
  /\ instanceSelector[1] \in DOMAIN instances
  /\ instances[instanceSelector[1]].component \in DOMAIN metas
  /\ ~metas[instances[instanceSelector[1]].component].detachable

\* the head of the selector is no instance, or one of a component without
\* a meta
Unknown(instances, instanceSelector) ==
  \/ instanceSelector[1] \notin DOMAIN instances
  \/ instances[instanceSelector[1]].component \notin DOMAIN metas

\* C15 as stated: the call returns false, with the tables as they were, for
\* a selector of length 1 and for a head marked non-detachable (then with
\* an error shown), and returns true in every other case
C15_Original ==
  Deleted =>
    IF Len(op.instanceSelector) = 1
      THEN ~op.result /\ data = op.pre
    ELSE IF MarkedNonDetachable(op.pre.instances, op.instanceSelector)
      THEN ~op.result /\ data = op.pre /\ op.toast
    ELSE op.result

\* C15: the call returns false, with the tables as they were, for a selector
\* of length 1 and, with an error shown, for a head that is marked
\* non-detachable, that is no instance or whose component has no meta; it
\* returns true in every other case
C15_DeleteRejection ==
  Deleted =>
    IF Len(op.instanceSelector) = 1
      THEN ~op.result /\ data = op.pre /\ ~op.toast
    ELSE IF \/ MarkedNonDetachable(op.pre.instances, op.instanceSelector)
            \/ Unknown(op.pre.instances, op.instanceSelector)
      THEN ~op.result /\ data = op.pre /\ op.toast
    ELSE op.result /\ ~op.toast

\* a rejected call for a head marked non-detachable, with the error shown
C15_Witness ==
  /\ Deleted
  /\ Len(op.instanceSelector) > 1
  /\ MarkedNonDetachable(op.pre.instances, op.instanceSelector)
  /\ ~op.result /\ op.toast /\ data = op.pre


\* the token style sources of a document
Tokens(d) == {k \in DOMAIN d.styleSources : d.styleSources[k].type = "token"}

\* C16: a deletion removes no token style source and no style declaration
\* of a token, also when the deleted instance was the only one that selected
\* the token
C16_TokensKept ==
  Deleted =>
    /\ \A k \in Tokens(op.pre) :
         k \in DOMAIN data.styleSources /\ data.styleSources[k] = op.pre.styleSources[k]
    /\ \A key \in DOMAIN op.pre.styles :
         op.pre.styles[key].styleSourceId \in Tokens(op.pre)
         => key \in DOMAIN data.styles /\ data.styles[key] = op.pre.styles[key]

\* a deletion that removed the only instance whose selection names a token
\* that has a style declaration
C16_Witness ==
  /\ Deleted /\ op.result
  /\ \E k \in Tokens(op.pre) :
       /\ \E key \in DOMAIN op.pre.styles : op.pre.styles[key].styleSourceId = k
       /\ \E i \in DOMAIN op.pre.styleSourceSelections :
            /\ i \notin DOMAIN data.instances
            /\ \E n \in DOMAIN op.pre.styleSourceSelections[i].values :
                 op.pre.styleSourceSelections[i].values[n] = k
       /\ \A i \in DOMAIN data.styleSourceSelections :
            \A n \in DOMAIN data.styleSourceSelections[i].values :
              data.styleSourceSelections[i].values[n] # k


RECURSIVE Reach(_, _, _)
\* the instances reached from the instances S by id-children; with
\* stopAtPortals the children of a Portal are not followed
Reach(instances, S, stopAtPortals) ==
  LET next ==
        S \cup UNION {IdChildren(instances[i]) :
                        i \in {j \in S \cap DOMAIN instances :
                                 ~(stopAtPortals /\ instances[j].component = portalComponent)}}
  IN IF next = S THEN S ELSE Reach(instances, next, stopAtPortals)

\* the Portals a deletion removed
RemovedPortals ==
  {i \in DOMAIN op.pre.instances \ DOMAIN data.instances :
     op.pre.instances[i].component = portalComponent}

\* the content of the removed Portals: the instances reached through their
\* id-children and not reached from the deleted instance otherwise
RemovedPortalContent ==
  (Reach(op.pre.instances,
         UNION {IdChildren(op.pre.instances[p]) : p \in RemovedPortals}, FALSE)
   \ Reach(op.pre.instances, {op.instanceSelector[1]}, TRUE))
  \cap DOMAIN op.pre.instances

\* the rows of a table of the document before the deletion are all there
\* after it, as they were
Kept(before, after, keys) ==
  \A k \in keys : k \in DOMAIN after /\ after[k] = before[k]

\* C17: a deletion that removes a Portal keeps the content of the Portal:
\* the instances under its id-children, and the props, data sources,
\* resources, selections, local style sources and style declarations that
\* belong to them, stay in the tables as they were
C17_PortalContentKept ==
  (Deleted /\ op.result) =>
    LET content == RemovedPortalContent
        dataSourceIds == {k \in DOMAIN op.pre.dataSources :
                            op.pre.dataSources[k].scopeInstanceId \in content}
        styleSourceIds ==
          {s \in UNION {Range(op.pre.styleSourceSelections[i].values) :
                          i \in content \cap DOMAIN op.pre.styleSourceSelections} :
             s \in DOMAIN op.pre.styleSources}
    IN /\ Kept(op.pre.instances, data.instances, content)
       /\ Kept(op.pre.props, data.props,
               {k \in DOMAIN op.pre.props : op.pre.props[k].instanceId \in content})
       /\ Kept(op.pre.dataSources, data.dataSources, dataSourceIds)
       /\ Kept(op.pre.resources, data.resources,
               {op.pre.dataSources[k].resourceId :
                  k \in {j \in dataSourceIds : op.pre.dataSources[j].type = "resource"}}
               \cap DOMAIN op.pre.resources)
       /\ Kept(op.pre.styleSourceSelections, data.styleSourceSelections,
               content \cap DOMAIN op.pre.styleSourceSelections)
       /\ Kept(op.pre.styleSources, data.styleSources, styleSourceIds)
       /\ Kept(op.pre.styles, data.styles,
               {key \in DOMAIN op.pre.styles :
                  op.pre.styles[key].styleSourceId \in styleSourceIds})

\* a deletion that removed a Portal whose content holds an instance with a
\* prop and a data source
C17_Witness ==
  /\ Deleted /\ op.result
  /\ RemovedPortals # {}
  /\ \E i \in RemovedPortalContent :
       /\ \E k \in DOMAIN op.pre.props : op.pre.props[k].instanceId = i
  /\ \E i \in RemovedPortalContent :
       /\ \E k \in DOMAIN op.pre.dataSources : op.pre.dataSources[k].scopeInstanceId = i

----------------------------------------------------------------------------
(* Claims about reparentInstance and insertTemplateData.                   *)

Reparented == op.name = "reparent"

\* deleteInstanceMutable rejects the selector: it is the root, or its head
\* is marked non-detachable, is no instance or has no meta
DeleteRejects(instances, instanceSelector) ==
  \/ Len(instanceSelector) = 1
  \/ MarkedNonDetachable(instances, instanceSelector)
  \/ Unknown(instances, instanceSelector)

\* C18: reparentInstance leaves every table as it was when
\* deleteInstanceMutable rejects the source or when there is no reparent
\* drop target; no copy of the source is inserted next to the original
C18_ReparentValidates ==
  (/\ Reparented
   /\ \/ DeleteRejects(op.pre.instances, op.sourceInstanceSelector)
      \/ getReparentDropTargetMutable(op.pre.instances, op.sourceInstanceSelector,
                                      op.dropTarget) = NoTarget)
  => /\ data = op.pre
     /\ ~op.end.threw


\* C19: when the parent of the drop target is no instance of the document,
\* or the pages are undefined, insertTemplateData writes no instance, prop,
\* data source, style source, style declaration or selection, and the
\* selector it selects names no instance that does not exist
C19_TemplateValidates ==
  (/\ op.name = "template"
   /\ \/ ~op.pages
      \/ op.dropTarget.parentSelector[1] \notin DOMAIN op.pre.instances)
  => /\ data.instances = op.pre.instances
     /\ data.props = op.pre.props
     /\ data.dataSources = op.pre.dataSources
     /\ data.styleSources = op.pre.styleSources
     /\ data.styles = op.pre.styles
     /\ data.styleSourceSelections = op.pre.styleSourceSelections
     /\ Range(op.selected) \subseteq DOMAIN data.instances

----------------------------------------------------------------------------
(* Claims about the drop target resolver.                                  *)

Resolved == op.name = "droppable"

\* C20: findClosestDroppableComponentIndex returns -1 whenever
\* requiredAncestors is not empty and no component of the path is one of
\* them, whatever the path and the metadata
C20_RequiredAncestorMissing ==
  (/\ Resolved
   /\ op.constraints.requiredAncestors # {}
   /\ Range(op.componentSelector) \cap op.constraints.requiredAncestors = {})
  => op.result = -1

\* the call of the example: List is required, the path is Text, Paragraph,
\* Body, and Body is a container
C20_Witness ==
  /\ Resolved
  /\ op.constraints.requiredAncestors = {"List"}
  /\ op.constraints.invalidAncestors = {}
  /\ op.componentSelector = <<"Text", "Paragraph", "Body">>
  /\ op.metas["Body"].type = "container"
  /\ op.result = -1


\* the indexes (counted from 0) of the containers of the path that have no
\* invalid ancestor at or after them
UsableContainers ==
  {i \in 0..(Len(op.componentSelector) - 1) :
     /\ op.componentSelector[i + 1] \in DOMAIN op.metas
     /\ op.metas[op.componentSelector[i + 1]].type = "container"
     /\ \A j \in i..(Len(op.componentSelector) - 1) :
          op.componentSelector[j + 1] \notin op.constraints.invalidAncestors}

\* C21: an index returned by findClosestDroppableComponentIndex is the
\* smallest index of a container with no invalid ancestor at or after it,
\* and the function returns -1 when the path has no such container
C21_ClosestContainer ==
  Resolved =>
    /\ op.result # -1 =>
         /\ op.result \in UsableContainers
         /\ \A i \in UsableContainers : op.result <= i
    /\ UsableContainers = {} => op.result = -1

\* a call whose path has a container before an invalid ancestor and one
\* after it: the one after it is returned
C21_Witness ==
  /\ Resolved
  /\ op.componentSelector = <<"List", "Paragraph", "Body">>
  /\ op.constraints.invalidAncestors = {"Paragraph"}
  /\ op.constraints.requiredAncestors = {}
  /\ op.metas["List"].type = "container"
  /\ op.result = 2


TargetResolved == op.name = "target"

\* the component path findClosestDroppableTarget resolves, and its accepted index
TargetIndex ==
  findClosestDroppableComponentIndex(op.metas,
    [k \in DOMAIN op.instanceSelector |->
       IF op.instanceSelector[k] \in DOMAIN op.instances
         THEN op.instances[op.instanceSelector[k]].component ELSE "Fragment"],
    op.constraints)

\* the 1-based places, among the children of the accepted container, of the
\* id-child naming the selector element just before the container
PlacesOfPrevious ==
  {k \in DOMAIN op.instances[op.instanceSelector[TargetIndex + 1]].children :
     LET child == op.instances[op.instanceSelector[TargetIndex + 1]].children[k]
     IN child.type = "id" /\ child.value = op.instanceSelector[TargetIndex]}

\* C22: with the accepted index 0 the result is the whole selector with
\* position "end"; otherwise a result has the selector suffix from the
\* container as parentSelector, and its position is one past the first place of
\* the child naming the element before the container (0 when no child names
\* it), which lies between 0 and the number of the container's children
C22_TargetPosition ==
  TargetResolved =>
    /\ TargetIndex = 0 => op.result = DroppableTarget(op.instanceSelector, End)
    /\ TargetIndex > 0 /\ op.result # NoTarget =>
         /\ op.result.parentSelector =
              SubSeq(op.instanceSelector, TargetIndex + 1, Len(op.instanceSelector))
         /\ op.result.position \in
              0..Len(op.instances[op.instanceSelector[TargetIndex + 1]].children)
         /\ PlacesOfPrevious = {} => op.result.position = 0
         /\ PlacesOfPrevious # {} =>
              /\ op.result.position \in PlacesOfPrevious
              /\ \A k \in PlacesOfPrevious : op.result.position <= k

C22_Witness ==
  /\ TargetResolved
  /\ TargetIndex > 0
  /\ op.result # NoTarget
  /\ op.result.position = Len(op.instances[op.instanceSelector[TargetIndex + 1]].children)
  /\ op.result.position > 1


----------------------------------------------------------------------------
(* Claims about what insertWebstudioFragmentCopy writes and returns.       *)

\* the code assigns to a data source outside the set
AssignsOutside(code, available) ==
  \E i \in DOMAIN code.toks :
    /\ code.toks[i].text.kind = "ident"
    /\ code.toks[i].assignee
    /\ decodeDataSourceVariable(code.toks[i].text) # undefined
    /\ decodeDataSourceVariable(code.toks[i].text) \notin available

\* the steps an action is to be stored with: the execute steps that assign to
\* no data source outside the set, in their order, each with its code inlined
\* and renamed
StepsToKeep(steps, available, ids) ==
  LET kept == SelectSeq(steps, LAMBDA step :
                          step.type # "execute" \/ ~AssignsOutside(step.code, available))
  IN [k \in DOMAIN kept |->
        IF kept[k].type # "execute" THEN kept[k]
        ELSE Execute(Renamed(
               [kept[k].code EXCEPT !.toks =
                  [i \in DOMAIN kept[k].code.toks |->
                     InlinedToken(kept[k].code.toks[i], available,
                                  FragmentDataSourcesMap(op.fragment))]],
               ids))]

\* the portal content of the fragment the instance belongs to, when the call
\* inserted it
InsertedPortalContent(instanceId) ==
  UNION {findTreeInstanceIdsExcludingSlotDescendants(
           FragmentInstancesMap(op.fragment), rootInstanceId) :
         rootInstanceId \in
           {r \in Range(PortalContentIds(op.fragment)) :
              /\ r \notin DOMAIN op.pre.instances
              /\ instanceId \in findTreeInstanceIdsExcludingSlotDescendants(
                                  FragmentInstancesMap(op.fragment), r)}}

\* the data sources of the fragment scoped to the instances
ScopedTo(instanceIds) ==
  {dataSource.id :
     dataSource \in {x \in Range(op.fragment.dataSources) :
                       x.scopeInstanceId # undefined /\ x.scopeInstanceId \in instanceIds}}

\* the action props of the fragment
Actions == {prop \in Range(op.fragment.props) : prop.type = "action"}

\* C23: an action prop the call inserts, with new ids or as portal content,
\* is stored with exactly the execute steps whose inlining is not discarded,
\* in their order, and is stored even when no step is left
C23_DiscardedSteps ==
  Inserted =>
    \A prop \in Actions :
      /\ prop.id \in DOMAIN op.end.newPropIds =>
           /\ op.end.newPropIds[prop.id] \in DOMAIN data.props
           /\ data.props[op.end.newPropIds[prop.id]].type = "action"
           /\ data.props[op.end.newPropIds[prop.id]].steps =
                StepsToKeep(prop.steps,
                            op.availableDataSources \cup DOMAIN op.end.newDataSourceIds,
                            op.end.newDataSourceIds)
      /\ InsertedPortalContent(prop.instanceId) # {} =>
           /\ prop.id \in DOMAIN data.props
           /\ data.props[prop.id].type = "action"
           /\ data.props[prop.id].steps =
                StepsToKeep(prop.steps,
                            op.availableDataSources
                              \cup ScopedTo(InsertedPortalContent(prop.instanceId)),
                            EmptyMap)

\* one call stores an action of the pasted instances with one of its two
\* steps, and an action of the portal content with no step
C23_Witness ==
  /\ Inserted
  /\ \E prop \in Actions :
       /\ prop.id \in DOMAIN op.end.newPropIds
       /\ Len(prop.steps) = 2
       /\ Len(data.props[op.end.newPropIds[prop.id]].steps) = 1
  /\ \E prop \in Actions :
       /\ InsertedPortalContent(prop.instanceId) # {}
       /\ Len(prop.steps) = 2
       /\ data.props[prop.id].steps = <<>>


\* the instances of the fragment reached from its first instance without
\* entering the children of a Portal
UniqueInstances ==
  Reach(FragmentInstancesMap(op.fragment), {op.fragment.instances[1].id}, TRUE)
    \cap DOMAIN FragmentInstancesMap(op.fragment)

\* the instances of the fragment reached from the children of its Portals
PortalContentInstances ==
  Reach(FragmentInstancesMap(op.fragment), Range(PortalContentIds(op.fragment)), FALSE)

\* what the claim says of the maps a call returns
MapsAsClaimed ==
  LET e == op.end
      fragmentInstances == FragmentInstancesMap(op.fragment)
      fragmentDataSources == FragmentDataSourcesMap(op.fragment)
  IN /\ DOMAIN e.newInstanceIds = UniqueInstances
     /\ DOMAIN e.newDataSourceIds = ScopedTo(UniqueInstances)
     /\ DOMAIN e.newInstanceIds \cap PortalContentInstances = {}
     /\ \A a, b \in DOMAIN e.newInstanceIds :
          e.newInstanceIds[a] = e.newInstanceIds[b] => a = b
     /\ \A a, b \in DOMAIN e.newDataSourceIds :
          e.newDataSourceIds[a] = e.newDataSourceIds[b] => a = b
     /\ \A old \in DOMAIN e.newInstanceIds :
          LET new == e.newInstanceIds[old] IN
          /\ new \notin DOMAIN op.pre.instances \cup DOMAIN fragmentInstances
          /\ new \in DOMAIN data.instances
          /\ data.instances[new].id = new
          /\ data.instances[new].component = fragmentInstances[old].component
          /\ Len(data.instances[new].children) = Len(fragmentInstances[old].children)
     /\ \A old \in DOMAIN e.newDataSourceIds :
          LET new == e.newDataSourceIds[old] IN
          /\ new \notin DOMAIN op.pre.dataSources \cup DOMAIN fragmentDataSources
          /\ new \in DOMAIN data.dataSources
          /\ data.dataSources[new].id = new
          /\ data.dataSources[new].type = fragmentDataSources[old].type
          /\ data.dataSources[new].scopeInstanceId =
               e.newInstanceIds[fragmentDataSources[old].scopeInstanceId]

\* C24 as it is stated: of every call that returns
C24_Original == (op.name = "insert" /\ ~op.end.threw) => MapsAsClaimed

\* C24: a call that returns with a project loaded returns maps whose keys are
\* the instances of the fragment outside of portal content and the data
\* sources scoped to them, which are injective, and whose values are new ids
\* under which the copies are stored; with no project loaded both maps are
\* empty and nothing is written
C24_ReturnedMaps ==
  (op.name = "insert" /\ ~op.end.threw) =>
    IF project = NoProject
      THEN /\ op.end.newInstanceIds = EmptyMap
           /\ op.end.newDataSourceIds = EmptyMap
           /\ data = op.pre
      ELSE MapsAsClaimed

\* a fragment with a Portal and its content, and data sources scoped to
\* both, is pasted a second time into a project
C24_Witness ==
  /\ Inserted
  /\ op.again
  /\ PortalContentInstances # {}
  /\ Cardinality(DOMAIN op.end.newInstanceIds) >= 3
  /\ Cardinality(DOMAIN op.end.newDataSourceIds) >= 2
  /\ ScopedTo(PortalContentInstances) # {}


\* the instances of the document reached from the extracted root by id-children
ReachedFromRoot ==
  Reach(op.pre.instances, {op.rootInstanceId}, FALSE) \cap DOMAIN op.pre.instances

\* those of them reached through the id-children of a Portal
ReachedThroughPortals ==
  Reach(op.pre.instances,
        UNION {IdChildren(op.pre.instances[i]) :
                 i \in {j \in ReachedFromRoot :
                          op.pre.instances[j].component = portalComponent}},
        FALSE) \cap DOMAIN op.pre.instances

\* C25: the instances of an extracted fragment are the instances of the
\* document reached from the root by id-children, those behind a Portal
\* included, each as the document holds it; the fragment has the selection,
\* the props and the scoped data sources of every instance behind a Portal
C25_ThroughPortals ==
  Extracted =>
    /\ FragmentInstanceIds(clipboard) = ReachedFromRoot
    /\ \A instance \in Range(clipboard.instances) :
         instance = op.pre.instances[instance.id]
    /\ \A i \in ReachedThroughPortals :
         /\ i \in DOMAIN op.pre.styleSourceSelections =>
              op.pre.styleSourceSelections[i] \in Range(clipboard.styleSourceSelections)
         /\ \A k \in DOMAIN op.pre.props :
              op.pre.props[k].instanceId = i => op.pre.props[k] \in Range(clipboard.props)
         /\ \A k \in DOMAIN op.pre.dataSources :
              op.pre.dataSources[k].scopeInstanceId = i =>
                op.pre.dataSources[k] \in Range(clipboard.dataSources)

\* the root is outside of the portal content, which has a selection, props
\* and a scoped data source
C25_Witness ==
  /\ Extracted
  /\ op.rootInstanceId \notin ReachedThroughPortals
  /\ \E i \in ReachedThroughPortals : i \in DOMAIN op.pre.styleSourceSelections
  /\ \E k \in DOMAIN op.pre.props : op.pre.props[k].instanceId \in ReachedThroughPortals
  /\ \E k \in DOMAIN op.pre.dataSources :
       op.pre.dataSources[k].scopeInstanceId \in ReachedThroughPortals


----------------------------------------------------------------------------
(* Claims about extractWebstudioFragment on a damaged document.            *)

\* a code string with nothing in it stands for one that does not parse
NeutralCode(code) == IF Throws(code) THEN Code(<<>>) ELSE code

\* the instance without its id-children that name no instance of the
\* document, and with neutral code
NeutralInstance(instance) ==
  [instance EXCEPT !.children =
     MapSeq(SelectSeq(@, LAMBDA child :
                           child.type = "id" => child.value \in DOMAIN op.pre.instances),
            LAMBDA child : IF child.type = "expression"
                             THEN ExpressionChild(NeutralCode(child.code)) ELSE child)]

\* the selection without the values that name no style source of the document
NeutralSelection(selection) ==
  [selection EXCEPT !.values =
     SelectSeq(@, LAMBDA id : id \in DOMAIN op.pre.styleSources)]

NeutralProp(prop) ==
  CASE prop.type = "expression" -> [prop EXCEPT !.code = NeutralCode(@)]
    [] prop.type = "action" ->
         [prop EXCEPT !.steps = MapSeq(@, LAMBDA step : Execute(NeutralCode(step.code)))]
    [] OTHER -> prop

NeutralResource(resource) ==
  [resource EXCEPT
     !.url = NeutralCode(@),
     !.headers = MapSeq(@, LAMBDA header : Header(header.name, NeutralCode(header.value))),
     !.body = MapSeq(@, NeutralCode)]

\* the document before the extraction as if its code that does not parse and
\* its references to missing instances and style sources were absent
Neutral ==
  [op.pre EXCEPT
     !.instances = [k \in DOMAIN @ |-> NeutralInstance(@[k])],
     !.styleSourceSelections = [k \in DOMAIN @ |-> NeutralSelection(@[k])],
     !.props = [k \in DOMAIN @ |-> NeutralProp(@[k])],
     !.resources = [k \in DOMAIN @ |-> NeutralResource(@[k])]]

\* C26: the extraction leaves the document as it is; the fragment is the one
\* of the document without its unparsable code and its references to missing
\* instances and style sources, but for these in the records that carry them;
\* the style declarations and the data sources of the fragment are collected
\* whether or not their breakpoint or resource exists, and the breakpoints and
\* resources of the fragment are those of them that exist
C26_ToleratesDamage ==
  Extracted =>
    /\ data = op.pre
    /\ \E g \in {extractWebstudioFragment(Neutral, op.rootInstanceId)} :
         /\ MapSeq(clipboard.instances, NeutralInstance) = g.instances
         /\ MapSeq(clipboard.styleSourceSelections, NeutralSelection)
              = g.styleSourceSelections
         /\ MapSeq(clipboard.props, NeutralProp) = g.props
         /\ MapSeq(clipboard.resources, NeutralResource) = g.resources
         /\ clipboard.children = g.children
         /\ clipboard.styleSources = g.styleSources
         /\ clipboard.styles = g.styles
         /\ clipboard.breakpoints = g.breakpoints
         /\ clipboard.dataSources = g.dataSources
         /\ clipboard.assets = g.assets
    /\ \A k \in DOMAIN op.pre.styles :
         op.pre.styles[k].styleSourceId \in FragmentStyleSourceIdSet(clipboard)
           => op.pre.styles[k] \in Range(clipboard.styles)
    /\ FragmentBreakpointIdSet(clipboard) =
         {styleDecl.breakpointId : styleDecl \in Range(clipboard.styles)}
           \cap DOMAIN op.pre.breakpoints
    /\ \A k \in DOMAIN op.pre.dataSources :
         (/\ op.pre.dataSources[k].scopeInstanceId # undefined
          /\ op.pre.dataSources[k].scopeInstanceId \in FragmentInstanceIds(clipboard))
           => op.pre.dataSources[k] \in Range(clipboard.dataSources)
    /\ FragmentResourceIdSet(clipboard) =
         {dataSource.resourceId :
            dataSource \in {x \in Range(clipboard.dataSources) : x.type = "resource"}}
           \cap DOMAIN op.pre.resources

\* the fragment of a document with every damage: an id-child without
\* instance, a selection value without style source, a style declaration
\* without breakpoint, and a resource whose code does not parse and alone
\* names a data source, which the fragment has not
C26_Witness ==
  /\ Extracted
  /\ \E instance \in Range(clipboard.instances) : NeutralInstance(instance) # instance
  /\ \E selection \in Range(clipboard.styleSourceSelections) :
       NeutralSelection(selection) # selection
  /\ \E styleDecl \in Range(clipboard.styles) :
       styleDecl.breakpointId \notin DOMAIN op.pre.breakpoints
  /\ \E resource \in Range(clipboard.resources) :
       /\ Throws(resource.url)
       /\ DecodedIds(resource.url) \ FragmentDataSourceIdSet(clipboard) # {}


----------------------------------------------------------------------------
(* Claims about the instances deleteInstanceMutable leaves.                *)

\* every id-child of every instance names an instance
ChildrenResolve(instances) ==
  \A i \in DOMAIN instances : IdChildren(instances[i]) \subseteq DOMAIN instances

\* a deletion that went through
DeletedSome == op.name = "delete" /\ op.result

\* C27: a successful delete of a document in which every id-child resolves
\* leaves a document in which every id-child resolves
C27_ChildrenResolve ==
  (DeletedSome /\ ChildrenResolve(op.pre.instances)) => ChildrenResolve(data.instances)


\* the style sources the selections of a document list
Selected(d) ==
  UNION {Range(d.styleSourceSelections[k].values) : k \in DOMAIN d.styleSourceSelections}

\* the local style sources the document before the deletion listed in a
\* selection and the document after it lists in none
NoLongerSelected ==
  {s \in DOMAIN op.pre.styleSources :
     /\ op.pre.styleSources[s].type = "local"
     /\ s \in Selected(op.pre)
     /\ s \notin Selected(data)}

\* C28: a successful delete removes exactly the local style sources that no
\* surviving selection lists any more, and exactly the style declarations of
\* the removed style sources; a local style source that a surviving
\* selection lists is kept
C28_LocalStyleCascade ==
  DeletedSome =>
    /\ RemovedStyleSources = NoLongerSelected
    /\ DOMAIN op.pre.styles \ DOMAIN data.styles =
         {k \in DOMAIN op.pre.styles : op.pre.styles[k].styleSourceId \in RemovedStyleSources}
    /\ \A s \in Selected(data) \cap DOMAIN op.pre.styleSources :
         s \in DOMAIN data.styleSources

\* a delete that removed a local style source with a style declaration and
\* left a selection that lists another local style source and a token the
\* deleted instance listed too
C28_Witness ==
  /\ DeletedSome
  /\ \E s \in RemovedStyleSources :
       \E k \in DOMAIN op.pre.styles : op.pre.styles[k].styleSourceId = s
  /\ \E s \in Selected(data) : data.styleSources[s].type = "local"
  /\ \E s \in Selected(data) :
       /\ data.styleSources[s].type = "token"
       /\ \E i \in DOMAIN op.pre.styleSourceSelections \ DOMAIN data.styleSourceSelections :
            s \in Range(op.pre.styleSourceSelections[i].values)


\* the children without the id-children that name the instance
WithoutChild(children, instanceId) ==
  SelectSeq(children, LAMBDA child : ~(child.type = "id" /\ child.value = instanceId))

\* the instance at the place of the selector, when the document before the
\* deletion has it
Held(i) ==
  /\ i <= Len(op.instanceSelector)
  /\ op.instanceSelector[i] \in DOMAIN op.pre.instances

\* the parent is a Fragment with one child, and there is a grandparent
Absorbs ==
  /\ Held(2)
  /\ op.pre.instances[op.instanceSelector[2]].component = "Fragment"
  /\ Len(op.pre.instances[op.instanceSelector[2]].children) = 1
  /\ Held(3)

\* C29: a delete that goes through removes a parent that is a Fragment with
\* one child, when there is a grandparent, together with the target, and
\* takes the id-child naming the Fragment out of the grandparent; any other
\* parent survives with nothing changed but the id-child naming the target
\* taken out
C29_Absorption ==
  DeletedSome =>
    /\ Absorbs =>
         /\ op.instanceSelector[2] \notin DOMAIN data.instances
         /\ op.instanceSelector[1] \notin DOMAIN data.instances
         /\ op.instanceSelector[3] \in DOMAIN data.instances
         /\ data.instances[op.instanceSelector[3]] =
              [op.pre.instances[op.instanceSelector[3]] EXCEPT
                 !.children = WithoutChild(@, op.instanceSelector[2])]
    /\ (Held(2) /\ ~Absorbs) =>
         /\ op.instanceSelector[1] \notin DOMAIN data.instances
         /\ op.instanceSelector[2] \in DOMAIN data.instances
         /\ data.instances[op.instanceSelector[2]] =
              [op.pre.instances[op.instanceSelector[2]] EXCEPT
                 !.children = WithoutChild(@, op.instanceSelector[1])]

\* the single child of a Fragment under the Body is deleted
C29_Witness ==
  /\ DeletedSome
  /\ Absorbs
  /\ op.pre.instances[op.instanceSelector[3]].component = "Body"
  /\ Len(data.instances[op.instanceSelector[3]].children)
       < Len(op.pre.instances[op.instanceSelector[3]].children)


\* the records of a table the call wrote: those the target had not, or had
\* otherwise
Written(before, after) ==
  {after[k] : k \in {j \in DOMAIN after : j \notin DOMAIN before \/ before[j] # after[j]}}

\* the code of the records the call wrote
WrittenCodes ==
  UNION {InstanceCodes(instance) : instance \in Written(op.pre.instances, data.instances)}
  \cup UNION {PropCodes(prop) : prop \in Written(op.pre.props, data.props)}
  \cup UNION {ResourceCodes(resource) : resource \in Written(op.pre.resources, data.resources)}

\* the code of the records the call wrote under new ids
MintedCodes ==
  UNION {InstanceCodes(data.instances[i]) : i \in Values(op.end.newInstanceIds)}
  \cup UNION {PropCodes(data.props[k]) : k \in Values(op.end.newPropIds)}
  \cup UNION {ResourceCodes(data.resources[k]) : k \in Values(op.end.newResourceIds)}

\* the data sources the identifiers of the code strings decode to
Named(codes) == UNION {DecodedIds(code) : code \in codes}

\* C30: after an insert the identifiers of the code the call wrote name data
\* sources the caller gave as available or data sources the call wrote; the
\* code written under new ids names no data source of the fragment that got
\* a new id
C30_IdentifiersInScope ==
  Inserted =>
    /\ Named(WrittenCodes) \subseteq
         op.availableDataSources
           \cup {dataSource.id :
                   dataSource \in Written(op.pre.dataSources, data.dataSources)}
    /\ Named(MintedCodes) \cap DOMAIN op.end.newDataSourceIds = {}

\* an insert that wrote code with identifiers on both paths, of a fragment
\* whose code names a data source that is neither available nor written, and
\* one that got a new id
C30_Witness ==
  /\ Inserted
  /\ Named(MintedCodes) \cap Values(op.end.newDataSourceIds) # {}
  /\ \E instance \in Written(op.pre.instances, data.instances) :
       /\ instance.id \notin Values(op.end.newInstanceIds)
       /\ Named(InstanceCodes(instance)) # {}
  /\ \E id \in Named(FragmentCodes(op.fragment)) :
       /\ id \notin op.availableDataSources
       /\ id \notin DOMAIN data.dataSources
  /\ Named(FragmentCodes(op.fragment)) \cap DOMAIN op.end.newDataSourceIds # {}


----------------------------------------------------------------------------
(* Claims about what reparentInstance leaves of the moved subtree.         *)

\* the instances of the moved subtree outside of portal content, and its
\* portal content, in the document before the call
MovedInstances ==
  Reach(op.pre.instances, {op.sourceInstanceSelector[1]}, TRUE)
    \cap DOMAIN op.pre.instances
MovedPortalContent ==
  (Reach(op.pre.instances, {op.sourceInstanceSelector[1]}, FALSE)
     \cap DOMAIN op.pre.instances) \ MovedInstances

\* a copy of the moved root is an id-child of the parent of the drop target
CopyAttached ==
  /\ op.dropTarget.parentSelector[1] \in DOMAIN data.instances
  /\ \E child \in Range(data.instances[op.dropTarget.parentSelector[1]].children) :
       /\ child.type = "id"
       /\ child.value \in DOMAIN data.instances \ DOMAIN op.pre.instances
       /\ data.instances[child.value].component =
            op.pre.instances[op.sourceInstanceSelector[1]].component

\* C31: after a call of reparentInstance either every table is as it was, or
\* the instances of the moved subtree outside of portal content are gone, a
\* copy of its root is an id-child of the parent of the drop target and its
\* portal content is kept under its ids
C31_NeverLoses ==
  Reparented =>
    \/ data = op.pre
    \/ /\ MovedInstances \cap DOMAIN data.instances = {}
       /\ CopyAttached
       /\ MovedPortalContent \subseteq DOMAIN data.instances


----------------------------------------------------------------------------
(* computeInstancesConstraints.                                            *)

RECURSIVE traverseInstancesConstraints(_, _, _, _, _)
RECURSIVE TraverseChildrenConstraints(_, _, _, _, _, _)

\* the traversal with every required ancestor added, whatever the path
traverseInstancesConstraints_AddAlways(componentMetas, instances, instanceId, found, componentSelector) ==
  IF ~Has(instances, instanceId) THEN found
  ELSE IF instances[instanceId].component \notin DOMAIN componentMetas THEN found
  ELSE LET instance == instances[instanceId]
           meta == componentMetas[instance.component]
       IN TraverseChildrenConstraints(
            componentMetas, instances, instance.children, 1,
            [requiredAncestors |-> found.requiredAncestors \cup meta.requiredAncestors,
             invalidAncestors |-> found.invalidAncestors \cup meta.invalidAncestors],
            <<instance.component>> \o componentSelector)

\* traverseInstancesConstraints(metas, instances, instanceId,
\* requiredAncestors, invalidAncestors, componentSelector): found holds the
\* two sets the code adds to, and the result is what they hold after the
\* call; a meta without requiredAncestors or invalidAncestors has the empty set
traverseInstancesConstraints(componentMetas, instances, instanceId, found, componentSelector) ==
  IF ~Has(instances, instanceId) THEN found
  ELSE IF instances[instanceId].component \notin DOMAIN componentMetas THEN found
  ELSE LET instance == instances[instanceId]
           meta == componentMetas[instance.component]
       IN TraverseChildrenConstraints(
            componentMetas, instances, instance.children, 1,
            [requiredAncestors |->
               found.requiredAncestors
                 \cup {requiredAncestor \in meta.requiredAncestors :
                         requiredAncestor \notin Range(componentSelector)},
             invalidAncestors |-> found.invalidAncestors \cup meta.invalidAncestors],
            <<instance.component>> \o componentSelector)

\* the loop over instance.children: the id-children are entered in order
TraverseChildrenConstraints(componentMetas, instances, children, i, found, componentSelector) ==
  IF i > Len(children) THEN found
  ELSE TraverseChildrenConstraints(
         componentMetas, instances, children, i + 1,
         IF children[i].type = "id"
           THEN traverseInstancesConstraints(componentMetas, instances,
                                             children[i].value, found, componentSelector)
           ELSE found,
         componentSelector)

RECURSIVE ConstraintsOfRoots(_, _, _, _, _)
\* the loop over rootInstanceIds
ConstraintsOfRoots(componentMetas, instances, rootInstanceIds, i, found) ==
  IF i > Len(rootInstanceIds) THEN found
  ELSE ConstraintsOfRoots(
         componentMetas, instances, rootInstanceIds, i + 1,
         traverseInstancesConstraints(componentMetas, instances,
                                      rootInstanceIds[i], found, <<>>))

computeInstancesConstraints(componentMetas, instances, rootInstanceIds) ==
  ConstraintsOfRoots(componentMetas, instances, rootInstanceIds, 1,
                     [requiredAncestors |-> {}, invalidAncestors |-> {}])

\* computeInstancesConstraints(metas, instances, rootInstanceIds); the
\* function is pure: a behaviour makes one call
Constraints(componentMetas, instances, rootInstanceIds) ==
  /\ op = NoOp
  /\ op' = [name |-> "constraints", metas |-> componentMetas,
            instances |-> instances, rootInstanceIds |-> rootInstanceIds,
            result |-> computeInstancesConstraints(componentMetas, instances,
                                                   rootInstanceIds)]
  /\ UNCHANGED <<data, project, clipboard, nextId, loads, extracts, calls, origin>>

ConstrainedMeta(requiredAncestors, invalidAncestors) ==
  [Meta("container", TRUE) EXCEPT !.requiredAncestors = requiredAncestors,
                                  !.invalidAncestors = invalidAncestors]

ConstraintComponents == {"List", "ListItem", "Link", "Box"}

\* the metadata given to computeInstancesConstraints: a ListItem requires a
\* List, a Link requires a Box and forbids a Link; in the second the Box has
\* no metadata, in the third the constraints name several components
ConstraintMetas ==
  LET registered ==
        [c \in ConstraintComponents |->
           CASE c = "ListItem" -> ConstrainedMeta({"List"}, {})
             [] c = "Link" -> ConstrainedMeta({"Box"}, {"Link"})
             [] OTHER -> ConstrainedMeta({}, {})]
  IN {registered,
      [c \in ConstraintComponents \ {"Box"} |-> registered[c]],
      [c \in ConstraintComponents |->
         CASE c = "ListItem" -> ConstrainedMeta({"List", "Box"}, {"Link"})
           [] c = "Link" -> ConstrainedMeta({"ListItem"}, {"Link", "List"})
           [] OTHER -> ConstrainedMeta({}, {})]}

\* the instances given to computeInstancesConstraints: 11 holds 12, a text
\* and 14, 12 holds 13, 14 holds 16, and 13 holds 15, which is missing
ConstraintInstances ==
  {[id \in {11, 12, 13, 14, 16} |->
      Instance(id, component[id],
               CASE id = 11 -> <<IdChild(12), TextChild("text"), IdChild(14)>>
                 [] id = 12 -> <<IdChild(13)>>
                 [] id = 13 -> <<IdChild(15)>>
                 [] id = 14 -> <<IdChild(16)>>
                 [] OTHER -> <<>>)] :
     component \in [{11, 12, 13, 14, 16} -> ConstraintComponents]}

\* the roots given to computeInstancesConstraints; 10 names no instance
ConstraintRoots ==
  {<<>>, <<11>>, <<12>>, <<13, 14>>, <<14, 12>>, <<11, 12>>, <<10, 13>>}

NextConstraints ==
  \E componentMetas \in ConstraintMetas, instances \in ConstraintInstances,
     rootInstanceIds \in ConstraintRoots :
    Constraints(componentMetas, instances, rootInstanceIds)

SpecConstraints == Init /\ [][NextConstraints]_vars

----------------------------------------------------------------------------
(* Claims about computeInstancesConstraints.                               *)

Constrained == op.name = "constraints"

\* the visits of the traversal: the paths of instances from a root down
\* id-children, every instance of which exists and has metadata
Visits ==
  {path \in UNION {[1..n -> DOMAIN op.instances] : n \in 1..4} :
     /\ path[1] \in Range(op.rootInstanceIds)
     /\ \A i \in DOMAIN path :
          op.instances[path[i]].component \in DOMAIN op.metas
     /\ \A i \in 1..(Len(path) - 1) :
          path[i + 1] \in IdChildren(op.instances[path[i]])}

\* the metadata of the instance a visit ends at, and the components of its
\* proper ancestors inside the inserted subtree
VisitedMeta(path) == op.metas[op.instances[path[Len(path)]].component]
AncestorComponents(path) ==
  {op.instances[path[i]].component : i \in 1..(Len(path) - 1)}

\* C32: computeInstancesConstraints returns as invalidAncestors the union of
\* the invalid ancestors of every visited instance, and as requiredAncestors
\* the components required by some visited instance that are not the
\* component of one of its proper ancestors inside the inserted subtree; below
\* an instance that is missing or has no metadata nothing is visited
C32_Constraints ==
  Constrained =>
    /\ op.result.invalidAncestors =
         UNION {VisitedMeta(path).invalidAncestors : path \in Visits}
    /\ op.result.requiredAncestors =
         UNION {VisitedMeta(path).requiredAncestors \ AncestorComponents(path) :
                  path \in Visits}

\* a ListItem below a List and a ListItem outside of one are visited, below
\* an instance without metadata an instance with constraints is left out
C32_Witness ==
  /\ Constrained
  /\ \E path \in Visits :
       VisitedMeta(path).requiredAncestors \cap AncestorComponents(path) # {}
  /\ \E path \in Visits :
       VisitedMeta(path).requiredAncestors \ AncestorComponents(path) # {}
  /\ op.result.invalidAncestors # {}
  /\ \E id \in DOMAIN op.instances :
       /\ op.instances[id].component \notin DOMAIN op.metas
       /\ \E child \in IdChildren(op.instances[id]) :
            /\ Has(op.instances, child)
            /\ op.instances[child].component \in DOMAIN op.metas
            /\ op.metas[op.instances[child].component].invalidAncestors # {}
            /\ \A path \in Visits : path[Len(path)] # child


----------------------------------------------------------------------------
(* Claims about instance ids the fragment shares with the target.          *)

\* the instances of the fragment outside of portal content whose id names an
\* instance of the target before the call
CollidingInstances == UniqueInstances \cap DOMAIN op.pre.instances

C34_RequiredAtOrAbove ==
  (/\ Resolved
   /\ op.result >= 0
   /\ op.constraints.requiredAncestors # {})
  => \E i \in op.result..(Len(op.componentSelector) - 1) :
       op.componentSelector[i + 1] \in op.constraints.requiredAncestors


----------------------------------------------------------------------------
(* findAvailableDataSources.                                               *)

\* findAvailableDataSources(data.dataSources, data.instances,
\* instanceSelector) on the loaded document
Available(instanceSelector) ==
  /\ calls < MaxCalls
  /\ op' = [name |-> "available", instanceSelector |-> instanceSelector,
            pre |-> data,
            result |-> findAvailableDataSources(data.dataSources, data.instances,
                                                instanceSelector)]
  /\ calls' = calls + 1
  /\ UNCHANGED <<data, project, clipboard, nextId, loads, extracts, origin>>

\* the selectors findAvailableDataSources is called with: those of the
\* document, the same with the second element naming no instance, and the
\* empty one
AvailableSelectors ==
  LET held == InstanceSelectors(data.instances)
  IN held \cup {[s EXCEPT ![2] = 10] : s \in {t \in held : Len(t) >= 2}} \cup {<<>>}

NextAvailable ==
  \/ LoadAny
  \/ \E instanceSelector \in AvailableSelectors : Available(instanceSelector)

SpecAvailable == Init /\ [][NextAvailable]_vars

----------------------------------------------------------------------------
(* Claims about findAvailableDataSources.                                  *)

Availed == op.name = "available"

\* the positions of the Portals of the selector
PortalPositions ==
  {i \in DOMAIN op.instanceSelector :
     /\ Has(op.pre.instances, op.instanceSelector[i])
     /\ op.pre.instances[op.instanceSelector[i]].component = portalComponent}

\* the instances of the selector before its first Portal, and the others
InnerInstances ==
  {op.instanceSelector[i] :
     i \in {j \in DOMAIN op.instanceSelector : \A p \in PortalPositions : j < p}}
OuterInstances ==
  {op.instanceSelector[i] :
     i \in {j \in DOMAIN op.instanceSelector : \E p \in PortalPositions : j >= p}}

\* C35: findAvailableDataSources returns the ids of the data sources scoped
\* to an instance of the selector before its first Portal, none of a data
\* source scoped to the Portal or to an instance beyond it, and changes no
\* table
C35_AvailableDataSources ==
  Availed =>
    /\ op.result =
         {id \in DOMAIN op.pre.dataSources :
            /\ op.pre.dataSources[id].scopeInstanceId # undefined
            /\ op.pre.dataSources[id].scopeInstanceId \in InnerInstances}
    /\ \A id \in op.result :
         op.pre.dataSources[id].scopeInstanceId \notin OuterInstances
    /\ data = op.pre

\* a selector through a Portal, with a data source scoped before the Portal
\* and one scoped to the Portal or beyond it
C35_Witness ==
  /\ Availed
  /\ PortalPositions # {}
  /\ op.result # {}
  /\ \E id \in DOMAIN op.pre.dataSources :
       op.pre.dataSources[id].scopeInstanceId \in OuterInstances

====
